---- MODULE Spec2Model ----
(***************************************************************************)
(* Container registration and challenge/response protocol of privacyIDEA:  *)
(* TokenContainerClass.validate_challenge (lib/containerclass.py) and the  *)
(* SmartphoneContainer protocol operations (lib/containers/smartphone.py). *)
(* One container (one serial) is modelled; its challenge rows, its info    *)
(* store and a clock are the state.                                        *)
(***************************************************************************)
EXTENDS Integers, Sequences, FiniteSets, TLC

\* ---------------------------------------------------------------- bounds
MaxTime == 121
MaxIssued == 3

\* ------------------------------------------------------- input domains
Scopes == {"register", "sync"}
ClientKeys == {"k1", "k2"}
ServerKeyPairs == {"s1", "s2"}
NoDevice == <<"", "">>
NoExtras == <<"", "">>

\* The Token rows: serial and type; NONE1 is the serial of no token.
TokenType == [serial \in {"HOTP1", "TOTP1", "SPAS1"} |->
                 CASE serial = "HOTP1" -> "hotp"
                   [] serial = "TOTP1" -> "totp"
                   [] OTHER -> "spass"]
Serials == DOMAIN TokenType \cup {"NONE1"}

\* The tokeninfo of the Token rows, as Token.get_as_dict reports it.
TokenInfo == [serial \in DOMAIN TokenType |->
                 CASE serial = "HOTP1" -> [hashlib |-> "sha1"]
                   [] serial = "TOTP1" -> [hashlib |-> "sha1", timeStep |-> "30"]
                   [] OTHER -> [private_key_server |-> "secret",
                                 \* TLA+ field names have no dot
                                 private_key_server_type |-> "password",
                                 enrollment |-> "done"]]

SecondsPerMinute == 60
Serial == "SMPH0001"
NoChallenges == <<>>

VARIABLES
    challenges,    \* Challenge rows of the container's serial, in insertion order
    info,          \* TokenContainerInfo rows as a dictionary key -> value
    now,           \* clock, in seconds
    issued,        \* creation time of every challenge ever issued, by nonce
    validations,   \* how often a validation has matched each challenge, by nonce
    result,        \* what the last operation did and returned
    procs,         \* requests in flight, for the interleaved specification
    states,        \* TokenContainerStates rows: the state names of the container
    owners,        \* TokenContainerOwner rows of the container
    realms,        \* TokenContainerRealm rows: the realm names of the container
    tokens,        \* serials of the tokens in the container, in the order added
    token_table    \* serials of the Token rows that exist

vars == <<challenges, info, now, issued, validations, result, procs,
          states, owners, realms, tokens, token_table>>

\* What the protocol operations leave alone.
management == <<states, owners, realms, tokens, token_table>>

\* ------------------------------------------------------------ dictionaries
Has(d, k) == k \in DOMAIN d
Get(d, k, default) == IF k \in DOMAIN d THEN d[k] ELSE default
Put(d, k, v) == [x \in (DOMAIN d) \cup {k} |-> IF x = k THEN v ELSE d[x]]
Del(d, k) == [x \in (DOMAIN d) \ {k} |-> d[x]]
EmptyDict == [x \in {} |-> ""]

SeqRange(s) == {s[i] : i \in DOMAIN s}
RemoveNonces(list, ns) == SelectSeq(list, LAMBDA c : c.nonce \notin ns)
Orderings(list) ==
    {p \in [DOMAIN list -> SeqRange(list)] : \A i, j \in DOMAIN list : i # j => p[i] # p[j]}

\* ------------------------------------------------------ crypto collaborators
encryptPassword(p) == <<"enc", p>>
decryptPassword(c) == c[2]
b64url_str_key_pair_to_ecc_obj(s) == <<"ecc", s>>
isoformat(t) == <<"utc", t>>

\* A signature records who signed and what was signed; Tampered verifies nothing.
Sign(signer, message) == [signer |-> signer, msg |-> message]
Tampered == [signer |-> "nobody", msg |-> <<>>]
verify_ecc(message, signature, public_key) ==
    /\ public_key = b64url_str_key_pair_to_ecc_obj(signature.signer)
    /\ signature.msg = message

Optional(field) == IF field # "" THEN <<field>> ELSE <<>>

\* The message f"{nonce}|{times_stamp}|{serial}|{scope}" and its optional parts,
\* as the list of the parts that are joined with "|".
Message(nonce, times_stamp, scope, device_brand, device_model, passphrase, key, container) ==
    <<nonce, times_stamp, Serial, scope>>
        \o Optional(device_brand) \o Optional(device_model) \o Optional(passphrase)
        \o Optional(key) \o Optional(container)

\* ------------------------------------------------------------- Challenge
is_valid(challenge, t) ==
    /\ challenge.timestamp <= t
    /\ t < challenge.timestamp + challenge.validitytime

NewChallenge(nonce, t, validitytime, scope, passphrase_response) ==
    [nonce |-> nonce, timestamp |-> t, validitytime |-> validitytime,
     scope |-> scope, type |-> "container", passphrase_response |-> passphrase_response]

Row(rows, nonce) == CHOOSE c \in SeqRange(rows) : c.nonce = nonce
Nonces(rows) == {c.nonce : c \in SeqRange(rows)}

\* ---------------------------------------------------------------- results
NoError == ""
NoMatch == {}
InvalidChallengeMessage == "Could not verify signature!"
NotRegisteredMessage == "The container is not registered or was unregistered!"

\* args: the scope and the validity (minutes) the caller passed, where the
\* operation takes them; matched: the nonce of the challenge a validation matched,
\* as a set of at most one nonce.
Returned(op, value, scope, validity_time, matched) ==
    [op |-> op, outcome |-> "return", value |-> value, error |-> NoError, message |-> "",
     scope |-> scope, validity_time |-> validity_time, matched |-> matched]
Raised(op, error, message, scope, matched) ==
    [op |-> op, outcome |-> "raise", value |-> <<>>, error |-> error, message |-> message,
     scope |-> scope, validity_time |-> 0, matched |-> matched]
Idle(op) == Returned(op, <<>>, "", 0, NoMatch)

\* What a management operation did: the arguments of the call, what was
\* persisted before it, and the value it returned or the error it raised.
Done(op, args, before, value) ==
    [op |-> op, outcome |-> "return", args |-> args, before |-> before,
     value |-> value, error |-> NoError]
Failed(op, args, before, error) ==
    [op |-> op, outcome |-> "raise", args |-> args, before |-> before,
     value |-> <<>>, error |-> error]

\* ------------------------------------- TokenContainerClass.validate_challenge
\* The loop body without the explicit scope check of lines 606-609.
ChallengeOutcome_NoScopeCheck(challenge, request, t) ==
    IF is_valid(challenge, t)
    THEN LET passphrase == IF challenge.passphrase_response # ""
                           THEN decryptPassword(challenge.passphrase_response)
                           ELSE ""
             message == Message(challenge.nonce, isoformat(challenge.timestamp),
                                challenge.scope, request.device_brand,
                                request.device_model, passphrase, request.key,
                                request.container)
         IN  IF verify_ecc(message, request.signature, request.public_key)
             THEN "valid"
             ELSE "continue"
    ELSE "expired"

\* The loop body without the passphrase of lines 614-616 in the message.
ChallengeOutcome_NoPassphrase(challenge, request, t) ==
    IF is_valid(challenge, t)
    THEN IF request.scope # challenge.scope
         THEN "continue"
         ELSE LET message == Message(challenge.nonce, isoformat(challenge.timestamp),
                                     challenge.scope, request.device_brand,
                                     request.device_model, "", request.key,
                                     request.container)
              IN  IF verify_ecc(message, request.signature, request.public_key)
                  THEN "valid"
                  ELSE "continue"
    ELSE "expired"

\* What one pass of the loop body does with one challenge of the list.
ChallengeOutcome(challenge, request, t) ==
    IF is_valid(challenge, t)
    THEN IF request.scope # challenge.scope
         THEN "continue"
         ELSE LET passphrase == IF challenge.passphrase_response # ""
                                THEN decryptPassword(challenge.passphrase_response)
                                ELSE ""
                  message == Message(challenge.nonce, isoformat(challenge.timestamp),
                                     challenge.scope, request.device_brand,
                                     request.device_model, passphrase, request.key,
                                     request.container)
              IN  IF verify_ecc(message, request.signature, request.public_key)
                  THEN "valid"
                  ELSE "continue"
    ELSE "expired"

NoValidation == [valid |-> FALSE, matched |-> NoMatch, deleted |-> {}]

RECURSIVE ValidateFrom(_, _, _, _)
ValidateFrom(challenge_list, i, request, t) ==
    IF i > Len(challenge_list)
    THEN NoValidation
    ELSE LET challenge == challenge_list[i]
             outcome == ChallengeOutcome(challenge, request, t)
         IN  CASE outcome = "valid" ->
                    [valid |-> TRUE, matched |-> {challenge.nonce}, deleted |-> {challenge.nonce}]
               [] outcome = "expired" ->
                    LET rest == ValidateFrom(challenge_list, i + 1, request, t)
                    IN  [rest EXCEPT !.deleted = @ \cup {challenge.nonce}]
               [] OTHER -> ValidateFrom(challenge_list, i + 1, request, t)

\* A validation whose search ends at the first unexpired challenge that does
\* not match (a return in place of the continue of lines 608 and 637).
RECURSIVE ValidateFrom_StopOnMismatch(_, _, _, _)
ValidateFrom_StopOnMismatch(challenge_list, i, request, t) ==
    IF i > Len(challenge_list)
    THEN NoValidation
    ELSE LET challenge == challenge_list[i]
             outcome == ChallengeOutcome(challenge, request, t)
         IN  CASE outcome = "valid" ->
                    [valid |-> TRUE, matched |-> {challenge.nonce}, deleted |-> {challenge.nonce}]
               [] outcome = "expired" ->
                    LET rest == ValidateFrom_StopOnMismatch(challenge_list, i + 1, request, t)
                    IN  [rest EXCEPT !.deleted = @ \cup {challenge.nonce}]
               [] OTHER -> NoValidation
validate_challenge_StopOnMismatch(challenge_list, request, t) ==
    ValidateFrom_StopOnMismatch(challenge_list, 1, request, t)

\* The validation without the challenge.delete() of line 644.
validate_challenge_NoSweep(challenge_list, request, t) ==
    LET v == ValidateFrom(challenge_list, 1, request, t)
    IN  [v EXCEPT !.deleted = v.matched]

\* The validation without the challenge.delete() of line 640.
validate_challenge_NoDelete(challenge_list, request, t) ==
    LET v == ValidateFrom(challenge_list, 1, request, t)
    IN  [v EXCEPT !.deleted = @ \ v.matched]

validate_challenge(challenge_list, request, t) == ValidateFrom(challenge_list, 1, request, t)

\* --------------------------------------- SmartphoneContainer.create_challenge
\* The creation without the conversion of minutes to seconds of line 348.
create_challenge_NoMinutes(rows, nonce, t, scope, validity_time, passphrase_response) ==
    Append(rows, NewChallenge(nonce, t, validity_time, scope, passphrase_response))

\* A validity_time of None, written as a number that is no number of minutes.
NoneTime == -1
Falsy == {0, NoneTime}

\* The creation with the conversion of line 348 made for every validity_time.
create_challenge_AlwaysMinutes(rows, nonce, t, scope, validity_time, passphrase_response) ==
    Append(rows, NewChallenge(nonce, t, validity_time * SecondsPerMinute, scope,
                              passphrase_response))

create_challenge(rows, nonce, t, scope, validity_time, passphrase_response) ==
    LET validitytime == IF validity_time \notin Falsy THEN validity_time * SecondsPerMinute
                        ELSE validity_time
    IN  Append(rows, NewChallenge(nonce, t, validitytime, scope, passphrase_response))

\* ------------------------------------------------------------ class options
OptionKeys == {"key_algorithm", "hash_algorithm", "encrypt_key_algorithm",
               "encrypt_algorithm", "encrypt_mode"}
options == [key \in OptionKeys |->
              CASE key = "key_algorithm" -> <<"secp384r1">>
                [] key = "hash_algorithm" -> <<"SHA256">>
                [] key = "encrypt_key_algorithm" -> <<"x25519">>
                [] key = "encrypt_algorithm" -> <<"AES">>
                [] key = "encrypt_mode" -> <<"GCM">>]

\* set_default_option applied to every class option: a missing or empty value
\* is replaced by the first allowed value, a set value is kept.
SetDefaultOptions(container_info) ==
    [key \in (DOMAIN container_info) \cup OptionKeys |->
        IF key \in OptionKeys /\ Get(container_info, key, "") = ""
        THEN options[key][1]
        ELSE container_info[key]]

\* ------------------------------------- SmartphoneContainer.init_registration
\* The registration without the deletion of the old challenges of lines 184-187.
init_registration_KeepOld(rows, container_info, nonce, t, scope, registration_ttl, passphrase) ==
    LET passphrase_response == IF passphrase # "" THEN encryptPassword(passphrase) ELSE ""
        with_options == SetDefaultOptions(container_info)
    IN  [challenges |-> create_challenge(rows, nonce, t, scope, registration_ttl,
                                         passphrase_response),
         info |-> Put(with_options, "registration_state", "client_wait"),
         result |-> Returned("init_registration",
                             [nonce |-> nonce, time_stamp |-> isoformat(t),
                              key_algorithm |-> with_options["key_algorithm"],
                              hash_algorithm |-> with_options["hash_algorithm"],
                              ttl |-> registration_ttl],
                             scope, registration_ttl, NoMatch)]

init_registration(rows, container_info, nonce, t, scope, registration_ttl, passphrase) ==
    LET passphrase_response == IF passphrase # "" THEN encryptPassword(passphrase) ELSE ""
        remaining == RemoveNonces(rows, Nonces(rows))
        created == create_challenge(remaining, nonce, t, scope, registration_ttl,
                                    passphrase_response)
        with_options == SetDefaultOptions(container_info)
    IN  [challenges |-> created,
         info |-> Put(with_options, "registration_state", "client_wait"),
         result |-> Returned("init_registration",
                             [nonce |-> nonce, time_stamp |-> isoformat(t),
                              key_algorithm |-> with_options["key_algorithm"],
                              hash_algorithm |-> with_options["hash_algorithm"],
                              ttl |-> registration_ttl],
                             scope, registration_ttl, NoMatch)]

\* --------------------------------- SmartphoneContainer.finalize_registration
Device(device_brand, device_model) ==
    Optional(device_brand) \o (IF device_model # "" THEN <<" ", device_model>> ELSE <<>>)

\* The writes of finalize_registration without the one of line 298.
FinalizeInfo_NoState(container_info, params, keypair) ==
    LET device == Device(params.device_brand, params.device_model)
        i1 == Put(container_info, "public_key_container", params.public_client_key)
        i2 == Put(i1, "public_key_server", <<"pub", keypair>>)
        i3 == Put(i2, "private_key_server", encryptPassword(<<"priv", keypair>>))
        i4 == IF device # <<>> THEN Put(i3, "device", device) ELSE Del(i3, "device")
    IN  IF params.initial_token_transfer THEN Put(i4, "initial_synchronized", "False") ELSE i4

\* The writes of finalize_registration with the one of line 298 made in every
\* registration state.
FinalizeInfo_RolloverRegistered(container_info, params, keypair) ==
    LET device == Device(params.device_brand, params.device_model)
        i1 == Put(container_info, "public_key_container", params.public_client_key)
        i2 == Put(i1, "public_key_server", <<"pub", keypair>>)
        i3 == Put(i2, "private_key_server", encryptPassword(<<"priv", keypair>>))
        i4 == IF device # <<>> THEN Put(i3, "device", device) ELSE Del(i3, "device")
        i5 == Put(i4, "registration_state", "registered")
    IN  IF params.initial_token_transfer THEN Put(i5, "initial_synchronized", "False") ELSE i5

\* The writes of finalize_registration without the deletion of line 293.
FinalizeInfo_KeepDevice(container_info, params, keypair) ==
    LET device == Device(params.device_brand, params.device_model)
        i1 == Put(container_info, "public_key_container", params.public_client_key)
        i2 == Put(i1, "public_key_server", <<"pub", keypair>>)
        i3 == Put(i2, "private_key_server", encryptPassword(<<"priv", keypair>>))
        i4 == IF device # <<>> THEN Put(i3, "device", device) ELSE i3
        i5 == IF Get(container_info, "registration_state", "") # "rollover"
              THEN Put(i4, "registration_state", "registered")
              ELSE i4
    IN  IF params.initial_token_transfer THEN Put(i5, "initial_synchronized", "False") ELSE i5

\* The info store after the writes of a successful finalize_registration;
\* container_info is the store as read after the validation.
FinalizeInfo(container_info, params, keypair) ==
    LET device == Device(params.device_brand, params.device_model)
        i1 == Put(container_info, "public_key_container", params.public_client_key)
        i2 == Put(i1, "public_key_server", <<"pub", keypair>>)
        i3 == Put(i2, "private_key_server", encryptPassword(<<"priv", keypair>>))
        i4 == IF device # <<>> THEN Put(i3, "device", device) ELSE Del(i3, "device")
        i5 == IF Get(container_info, "registration_state", "") # "rollover"
              THEN Put(i4, "registration_state", "registered")
              ELSE i4
    IN  IF params.initial_token_transfer THEN Put(i5, "initial_synchronized", "False") ELSE i5

ValidationRequest(signature, public_key_str, scope, key, container, device_brand, device_model) ==
    [signature |-> signature, public_key |-> b64url_str_key_pair_to_ecc_obj(public_key_str),
     scope |-> scope, key |-> key, container |-> container,
     device_brand |-> device_brand, device_model |-> device_model]

FinalizeRequest(params) ==
    ValidationRequest(params.signature, params.public_client_key, params.scope,
                      "", "", params.device_brand, params.device_model)

\* A finalize_registration that stores the client key before it validates.
finalize_registration_WriteFirst(challenge_list, rows, container_info, t, params, keypair) ==
    LET v == validate_challenge(challenge_list, FinalizeRequest(params), t)
        kept == RemoveNonces(rows, v.deleted)
    IN  IF ~v.valid
        THEN [challenges |-> kept,
              info |-> Put(container_info, "public_key_container", params.public_client_key),
              result |-> Raised("finalize_registration", "ContainerInvalidChallenge",
                                InvalidChallengeMessage, params.scope, v.matched)]
        ELSE [challenges |-> kept, info |-> FinalizeInfo(container_info, params, keypair),
              result |-> Returned("finalize_registration",
                                  [public_server_key |-> <<"pub", keypair>>],
                                  params.scope, 0, v.matched)]

\* A finalize_registration that tells a scope mismatch from a bad signature.
finalize_registration_ScopeOracle(challenge_list, rows, container_info, t, params, keypair) ==
    LET v == validate_challenge(challenge_list, FinalizeRequest(params), t)
        kept == RemoveNonces(rows, v.deleted)
    IN  IF ~v.valid
        THEN [challenges |-> kept, info |-> container_info,
              result |-> Raised("finalize_registration", "ContainerInvalidChallenge",
                                IF \E c \in SeqRange(kept) : c.scope = params.scope
                                THEN InvalidChallengeMessage
                                ELSE "Scope does not match!",
                                params.scope, v.matched)]
        ELSE [challenges |-> kept, info |-> FinalizeInfo(container_info, params, keypair),
              result |-> Returned("finalize_registration",
                                  [public_server_key |-> <<"pub", keypair>>],
                                  params.scope, 0, v.matched)]

finalize_registration(challenge_list, rows, container_info, t, params, keypair) ==
    LET v == validate_challenge(challenge_list, FinalizeRequest(params), t)
        kept == RemoveNonces(rows, v.deleted)
    IN  IF ~v.valid
        THEN [challenges |-> kept, info |-> container_info,
              result |-> Raised("finalize_registration", "ContainerInvalidChallenge",
                                InvalidChallengeMessage, params.scope, v.matched)]
        ELSE [challenges |-> kept, info |-> FinalizeInfo(container_info, params, keypair),
              result |-> Returned("finalize_registration",
                                  [public_server_key |-> <<"pub", keypair>>],
                                  params.scope, 0, v.matched)]

\* -------------------------------- SmartphoneContainer.check_challenge_response
CheckRequest(container_info, params) ==
    ValidationRequest(params.signature, container_info["public_key_container"],
                      params.scope, params.public_enc_key_client,
                      params.container_dict_client,
                      params.device_brand, params.device_model)

\* A check_challenge_response that looks for the client key only after the
\* validation loop has run (with no key to verify against).
check_challenge_response_ValidateFirst(challenge_list, rows, container_info, t, params) ==
    LET public_key_str == Get(container_info, "public_key_container", "")
        request == ValidationRequest(params.signature, public_key_str, params.scope,
                                     params.public_enc_key_client,
                                     params.container_dict_client,
                                     params.device_brand, params.device_model)
        v == validate_challenge(challenge_list, request, t)
        kept == RemoveNonces(rows, v.deleted)
    IN  IF ~Has(container_info, "public_key_container")
        THEN [challenges |-> kept, info |-> container_info,
              result |-> Raised("check_challenge_response", "ContainerNotRegistered",
                                NotRegisteredMessage, params.scope, NoMatch)]
        ELSE IF ~v.valid
             THEN [challenges |-> kept, info |-> container_info,
                   result |-> Raised("check_challenge_response", "ContainerInvalidChallenge",
                                     InvalidChallengeMessage, params.scope, v.matched)]
             ELSE [challenges |-> kept, info |-> container_info,
                   result |-> Returned("check_challenge_response", v.valid, params.scope,
                                       0, v.matched)]

check_challenge_response(challenge_list, rows, container_info, t, params) ==
    IF ~Has(container_info, "public_key_container")
    THEN [challenges |-> rows, info |-> container_info,
          result |-> Raised("check_challenge_response", "ContainerNotRegistered",
                            NotRegisteredMessage, params.scope, NoMatch)]
    ELSE LET v == validate_challenge(challenge_list, CheckRequest(container_info, params), t)
             kept == RemoveNonces(rows, v.deleted)
         IN  IF ~v.valid
             THEN [challenges |-> kept, info |-> container_info,
                   result |-> Raised("check_challenge_response", "ContainerInvalidChallenge",
                                     InvalidChallengeMessage, params.scope, v.matched)]
             ELSE [challenges |-> kept, info |-> container_info,
                   result |-> Returned("check_challenge_response", v.valid, params.scope,
                                       0, v.matched)]

\* -------------------------------- SmartphoneContainer.terminate_registration
RegistrationKeys == {"public_key_container", "public_key_server", "private_key_server",
                     "device", "server_url", "registration_state", "challenge_ttl",
                     "initial_synchronized"}
\* A termination that keeps the registration state (without line 320).
terminate_registration_KeepState(container_info) ==
    [key \in (DOMAIN container_info) \ (RegistrationKeys \ {"registration_state"}) |->
        container_info[key]]
terminate_registration(container_info) ==
    [key \in (DOMAIN container_info) \ RegistrationKeys |-> container_info[key]]

\* ------------------------------------------------------------- the client
\* The device signs the challenge it was sent (nonce and time stamp) together
\* with the scope, passphrase and optional fields of its request.
SignChallenge(nonce, t, signer, scope, passphrase, device, extras) ==
    Sign(signer, Message(nonce, isoformat(t), scope, device[1], device[2],
                         passphrase, extras[1], extras[2]))
ClientSignature(n, signer, scope, passphrase, device, extras) ==
    SignChallenge(n, issued[n], signer, scope, passphrase, device, extras)

Signatures(D, device, extras) ==
    {Tampered} \cup
    {ClientSignature(n, signer, scope, passphrase, device, extras) :
        n \in DOMAIN issued, signer \in D.signers, scope \in D.scopes,
        passphrase \in D.passphrases}

FinalizeParams(signature, public_client_key, scope, device, initial_token_transfer) ==
    [signature |-> signature, public_client_key |-> public_client_key, scope |-> scope,
     device_brand |-> device[1], device_model |-> device[2],
     initial_token_transfer |-> initial_token_transfer]

CheckParams(signature, scope, device, extras) ==
    [signature |-> signature, scope |-> scope,
     device_brand |-> device[1], device_model |-> device[2],
     public_enc_key_client |-> extras[1], container_dict_client |-> extras[2]]

\* The inputs a specification draws from: clock steps, validities (minutes),
\* scopes, passphrases, signing keys, client and server keys, devices, the
\* optional fields of a sync request and the initial-transfer policy.
ChallengeInputs ==
    [delays |-> {61}, validities |-> {1}, scopes |-> Scopes, passphrases |-> {""},
     signers |-> ClientKeys, clientKeys |-> {"k1"}, serverKeys |-> {"s1"},
     devices |-> {NoDevice}, extras |-> {NoExtras}, transfers |-> {FALSE}]
TimeInputs ==
    [delays |-> {60, 61}, validities |-> {0, 1, 2}, scopes |-> {"sync"}, passphrases |-> {""},
     signers |-> {"k1"}, clientKeys |-> {"k1"}, serverKeys |-> {"s1"},
     devices |-> {NoDevice}, extras |-> {NoExtras}, transfers |-> {FALSE}]
RegistrationInputs ==
    [delays |-> {61}, validities |-> {1}, scopes |-> {"register"}, passphrases |-> {""},
     signers |-> ClientKeys, clientKeys |-> ClientKeys, serverKeys |-> ServerKeyPairs,
     devices |-> {NoDevice, <<"acme", "x1">>}, extras |-> {NoExtras, <<"e1", "cd">>},
     transfers |-> BOOLEAN]

PassphraseInputs ==
    [delays |-> {61}, validities |-> {1}, scopes |-> {"register"},
     passphrases |-> {"", "pw", "other"},
     signers |-> {"k1"}, clientKeys |-> {"k1"}, serverKeys |-> {"s1"},
     devices |-> {NoDevice}, extras |-> {NoExtras}, transfers |-> {FALSE}]

WindowInputs ==
    [delays |-> {61}, validities |-> {NoneTime, 0, 1, 2}, scopes |-> {"sync"},
     passphrases |-> {""},
     signers |-> {"k1"}, clientKeys |-> {"k1"}, serverKeys |-> {"s1"},
     devices |-> {NoDevice}, extras |-> {NoExtras}, transfers |-> {FALSE}]

NoProcs == <<>>
NoKeyPair == "none"

\* ----------------------------------------------------------------- actions
Init ==
    /\ challenges = NoChallenges
    /\ info = EmptyDict
    /\ now = 0
    /\ issued = <<>>
    /\ validations = <<>>
    /\ result = Idle("init")
    /\ procs = NoProcs
    /\ states = {}
    /\ owners = {}
    /\ realms = {}
    /\ tokens = <<>>
    /\ token_table = DOMAIN TokenType

Tick(d) ==
    /\ now + d <= MaxTime
    /\ now' = now + d
    /\ result' = Idle("tick")
    /\ UNCHANGED <<challenges, info, issued, validations, procs, management>>

CreateChallenge(scope, validity_time) ==
    /\ Len(issued) < MaxIssued
    /\ challenges' = create_challenge(challenges, Len(issued) + 1, now, scope, validity_time, "")
    /\ issued' = Append(issued, now)
    /\ validations' = Append(validations, 0)
    /\ result' = Returned("create_challenge",
                          [nonce |-> Len(issued) + 1, time_stamp |-> isoformat(now),
                           enc_key_algorithm |-> Get(info, "encrypt_key_algorithm", "")],
                          scope, validity_time, NoMatch)
    /\ UNCHANGED <<info, now, procs, management>>

InitRegistration(scope, registration_ttl, passphrase) ==
    /\ Len(issued) < MaxIssued
    /\ LET out == init_registration(challenges, info, Len(issued) + 1, now, scope,
                                    registration_ttl, passphrase)
       IN  /\ challenges' = out.challenges
           /\ info' = out.info
           /\ result' = out.result
    /\ issued' = Append(issued, now)
    /\ validations' = Append(validations, 0)
    /\ UNCHANGED <<now, procs, management>>

Apply(out) ==
    /\ challenges' = out.challenges
    /\ info' = out.info
    /\ result' = out.result
    /\ validations' = [n \in DOMAIN validations |->
                          IF n \in out.result.matched THEN validations[n] + 1
                          ELSE validations[n]]
    /\ UNCHANGED <<now, issued, procs, management>>

FinalizeRegistration(D) ==
    \E device \in D.devices, public_client_key \in D.clientKeys, scope \in D.scopes :
    \E signature \in Signatures(D, device, NoExtras) :
    \E challenge_list \in Orderings(challenges) :
    \E initial_token_transfer \in D.transfers :
        LET params == FinalizeParams(signature, public_client_key, scope, device,
                                     initial_token_transfer)
            \* generate_keypair_ecc runs only after a successful validation
            generated == IF validate_challenge(challenge_list, FinalizeRequest(params), now).valid
                         THEN D.serverKeys ELSE {NoKeyPair}
        IN  \E keypair \in generated :
                Apply(finalize_registration(challenge_list, challenges, info, now, params,
                                            keypair))

CheckChallengeResponse(D) ==
    \E device \in D.devices, extras \in D.extras, scope \in D.scopes :
    \E signature \in Signatures(D, device, extras) :
    \E challenge_list \in Orderings(challenges) :
        Apply(check_challenge_response(challenge_list, challenges, info, now,
                  CheckParams(signature, scope, device, extras)))

TerminateRegistration ==
    /\ info' = terminate_registration(info)
    /\ result' = Done("terminate_registration", <<>>,
                      [info |-> info, challenges |-> challenges], <<>>)
    /\ UNCHANGED <<challenges, now, issued, validations, procs, management>>

\* TokenContainerClass.add_container_info as the rollover of a registered
\* device uses it.
AddContainerInfo(key, value) ==
    /\ Has(info, "public_key_container")
    /\ info' = Put(info, key, value)
    /\ result' = Idle("add_container_info")
    /\ UNCHANGED <<challenges, now, issued, validations, procs, management>>

Requests(D) ==
    \/ \E d \in D.delays : Tick(d)
    \/ \E scope \in D.scopes, validity_time \in D.validities :
          CreateChallenge(scope, validity_time)
    \/ \E scope \in D.scopes, registration_ttl \in D.validities,
          passphrase \in D.passphrases :
          InitRegistration(scope, registration_ttl, passphrase)
    \/ FinalizeRegistration(D)
    \/ CheckChallengeResponse(D)
    \/ TerminateRegistration
    \/ AddContainerInfo("registration_state", "rollover")

Next == Requests(ChallengeInputs)
NextTime == Requests(TimeInputs)
NextRegistration == Requests(RegistrationInputs)
NextPassphrase == Requests(PassphraseInputs)
NextWindow == Requests(WindowInputs)

Spec == Init /\ [][Next]_vars
SpecTime == Init /\ [][NextTime]_vars
SpecRegistration == Init /\ [][NextRegistration]_vars
SpecPassphrase == Init /\ [][NextPassphrase]_vars
SpecWindow == Init /\ [][NextWindow]_vars

\* ------------------------------------------------- requests that interleave
\* Two requests run finalize_registration or check_challenge_response against
\* the same container; every database access of a request is a step of its
\* own, and nothing in the code locks the container or the challenge rows.
Procs == {1, 2}
ConcurrentInputs ==
    [delays |-> {}, validities |-> {1}, scopes |-> {"register"}, passphrases |-> {""},
     signers |-> {"k1"}, clientKeys |-> {"k1"}, serverKeys |-> ServerKeyPairs,
     devices |-> {NoDevice}, extras |-> {NoExtras}, transfers |-> {FALSE}]

IdleProc ==
    [pc |-> "idle", kind |-> "", params |-> <<>>, request |-> <<>>, challenge_list |-> <<>>,
     i |-> 0, valid |-> FALSE, keypair |-> NoKeyPair, container_info |-> EmptyDict,
     outcome |-> ""]

InitConcurrent ==
    /\ challenges = NoChallenges
    /\ info = EmptyDict
    /\ now = 0
    /\ issued = <<>>
    /\ validations = <<>>
    /\ result = Idle("init")
    /\ procs = [p \in Procs |-> IdleProc]
    /\ states = {}
    /\ owners = {}
    /\ realms = {}
    /\ tokens = <<>>
    /\ token_table = DOMAIN TokenType

Step(p, fields) == procs' = [procs EXCEPT ![p] = fields]

\* finalize_registration up to the query of validate_challenge (line 592).
BeginFinalize(p, D) ==
    /\ procs[p].pc = "idle"
    /\ \E public_client_key \in D.clientKeys, scope \in D.scopes, device \in D.devices :
       \E signature \in Signatures(D, device, NoExtras) :
       \E challenge_list \in Orderings(challenges) :
       \E initial_token_transfer \in D.transfers :
           LET params == FinalizeParams(signature, public_client_key, scope, device,
                                        initial_token_transfer)
           IN  Step(p, [procs[p] EXCEPT !.pc = "loop", !.kind = "finalize_registration",
                                        !.params = params,
                                        !.request = FinalizeRequest(params),
                                        !.challenge_list = challenge_list, !.i = 1])
    /\ UNCHANGED <<challenges, info, now, issued, validations, result, management>>

\* check_challenge_response up to the query of validate_challenge.
BeginCheck(p, D) ==
    /\ procs[p].pc = "idle"
    /\ \E scope \in D.scopes, device \in D.devices, extras \in D.extras :
       \E signature \in Signatures(D, device, extras) :
       \E challenge_list \in Orderings(challenges) :
           LET params == CheckParams(signature, scope, device, extras)
           IN  IF ~Has(info, "public_key_container")
               THEN Step(p, [procs[p] EXCEPT !.pc = "done",
                                             !.kind = "check_challenge_response",
                                             !.params = params,
                                             !.outcome = "ContainerNotRegistered"])
               ELSE Step(p, [procs[p] EXCEPT !.pc = "loop",
                                             !.kind = "check_challenge_response",
                                             !.params = params,
                                             !.request = CheckRequest(info, params),
                                             !.challenge_list = challenge_list, !.i = 1])
    /\ UNCHANGED <<challenges, info, now, issued, validations, result, management>>

\* One pass of the loop of validate_challenge over the rows the query returned;
\* deleting a row that another request has deleted changes nothing. A request
\* forgets its local values (the rows, the info it read) after their last use.
LoopStep(p) ==
    /\ procs[p].pc = "loop"
    /\ IF procs[p].i > Len(procs[p].challenge_list)
       THEN /\ Step(p, [procs[p] EXCEPT !.pc = "validated", !.challenge_list = <<>>, !.i = 0])
            /\ UNCHANGED <<challenges, validations>>
       ELSE LET challenge == procs[p].challenge_list[procs[p].i]
                outcome == ChallengeOutcome(challenge, procs[p].request, now)
            IN  CASE outcome = "valid" ->
                       /\ challenges' = RemoveNonces(challenges, {challenge.nonce})
                       /\ validations' = [validations EXCEPT ![challenge.nonce] = @ + 1]
                       /\ Step(p, [procs[p] EXCEPT !.pc = "validated", !.valid = TRUE,
                                                    !.challenge_list = <<>>, !.i = 0])
                  [] outcome = "expired" ->
                       /\ challenges' = RemoveNonces(challenges, {challenge.nonce})
                       /\ Step(p, [procs[p] EXCEPT !.i = @ + 1])
                       /\ UNCHANGED validations
                  [] OTHER ->
                       /\ Step(p, [procs[p] EXCEPT !.i = @ + 1])
                       /\ UNCHANGED <<challenges, validations>>
    /\ UNCHANGED <<info, now, issued, result, management>>

\* What the caller does with the result of validate_challenge: raise, return,
\* or (finalize_registration, lines 278-282) read the info store and generate
\* the server's key pair.
EndValidation(p, D) ==
    /\ procs[p].pc = "validated"
    /\ IF ~procs[p].valid
       THEN Step(p, [procs[p] EXCEPT !.pc = "done", !.outcome = "ContainerInvalidChallenge"])
       ELSE IF procs[p].kind = "check_challenge_response"
            THEN Step(p, [procs[p] EXCEPT !.pc = "done", !.outcome = "return"])
            ELSE \E keypair \in D.serverKeys :
                     Step(p, [procs[p] EXCEPT !.pc = "write_client_key",
                                              !.keypair = keypair,
                                              !.container_info = info])
    /\ UNCHANGED <<challenges, info, now, issued, validations, result, management>>

Write(p, pc, next, store) ==
    /\ procs[p].pc = pc
    /\ info' = store
    /\ Step(p, [procs[p] EXCEPT !.pc = next,
                                !.container_info = IF pc = "write_state" THEN EmptyDict ELSE @,
                                !.outcome = IF next = "done" THEN "return" ELSE @])
    /\ UNCHANGED <<challenges, now, issued, validations, result, management>>

WriteClientKey(p) ==
    Write(p, "write_client_key", "write_server_key",
          Put(info, "public_key_container", procs[p].params.public_client_key))
WriteServerKey(p) ==
    Write(p, "write_server_key", "write_private_key",
          Put(info, "public_key_server", <<"pub", procs[p].keypair>>))
WritePrivateKey(p) ==
    Write(p, "write_private_key", "write_device",
          Put(info, "private_key_server", encryptPassword(<<"priv", procs[p].keypair>>)))
WriteDevice(p) ==
    Write(p, "write_device", "write_state",
          LET device == Device(procs[p].params.device_brand, procs[p].params.device_model)
          IN  IF device # <<>> THEN Put(info, "device", device) ELSE Del(info, "device"))
WriteState(p) ==
    Write(p, "write_state", "write_transfer",
          IF Get(procs[p].container_info, "registration_state", "") # "rollover"
          THEN Put(info, "registration_state", "registered")
          ELSE info)
WriteTransfer(p) ==
    Write(p, "write_transfer", "done",
          IF procs[p].params.initial_token_transfer
          THEN Put(info, "initial_synchronized", "False")
          ELSE info)

\* Challenges are issued before the two requests arrive.
NoneStarted == \A p \in Procs : procs[p].pc = "idle"

NextConcurrent ==
    \/ \E scope \in ConcurrentInputs.scopes, validity_time \in ConcurrentInputs.validities :
          NoneStarted /\ CreateChallenge(scope, validity_time)
    \/ \E scope \in ConcurrentInputs.scopes, registration_ttl \in ConcurrentInputs.validities,
          passphrase \in ConcurrentInputs.passphrases :
          NoneStarted /\ InitRegistration(scope, registration_ttl, passphrase)
    \/ \E p \in Procs :
          \/ BeginFinalize(p, ConcurrentInputs)
          \/ BeginCheck(p, ConcurrentInputs)
          \/ LoopStep(p)
          \/ EndValidation(p, ConcurrentInputs)
          \/ WriteClientKey(p)
          \/ WriteServerKey(p)
          \/ WritePrivateKey(p)
          \/ WriteDevice(p)
          \/ WriteState(p)
          \/ WriteTransfer(p)

SpecConcurrent == InitConcurrent /\ [][NextConcurrent]_vars

\* ------------------------------------------------------- container states
MaxList == 3

\* Lists of at most MaxList elements of a set.
Lists(S) == UNION {[1..n -> S] : n \in 0..MaxList}


get_state_types ==
    [state \in {"active", "disabled", "lost", "damaged"} |->
        CASE state = "active" -> {"disabled"}
          [] state = "disabled" -> {"active"}
          [] OTHER -> {}]

StateNames == DOMAIN get_state_types \cup {"broken"}

\* A check that finds no list contradictory.
check_excluded_states_Never(state_list) == FALSE

check_excluded_states(state_list) ==
    \E i \in DOMAIN state_list :
        /\ state_list[i] \in DOMAIN get_state_types
        /\ SeqRange(state_list) \cap get_state_types[state_list[i]] # {}

\* The result map {state: success} of set_states and add_states.
StateResult(state_list) ==
    [state \in SeqRange(state_list) |-> state \in DOMAIN get_state_types]

\* A set_states that removes the old rows before it checks the list.
set_states_DeleteFirst(persisted, state_list) ==
    IF check_excluded_states(state_list)
    THEN [states |-> {}, result |-> Failed("set_states", state_list, persisted, "ParameterError")]
    ELSE [states |-> SeqRange(state_list) \cap DOMAIN get_state_types,
          result |-> Done("set_states", state_list, persisted, StateResult(state_list))]

\* A set_states that keeps the old rows.
set_states_KeepOld(persisted, state_list) ==
    IF check_excluded_states(state_list)
    THEN [states |-> persisted,
          result |-> Failed("set_states", state_list, persisted, "ParameterError")]
    ELSE [states |-> persisted \cup (SeqRange(state_list) \cap DOMAIN get_state_types),
          result |-> Done("set_states", state_list, persisted, StateResult(state_list))]

set_states(persisted, state_list) ==
    IF check_excluded_states(state_list)
    THEN [states |-> persisted,
          result |-> Failed("set_states", state_list, persisted, "ParameterError")]
    ELSE [states |-> SeqRange(state_list) \cap DOMAIN get_state_types,
          result |-> Done("set_states", state_list, persisted, StateResult(state_list))]

\* The loop of add_states from position i on: a supported state removes the
\* rows of the states it excludes and is saved, an unsupported one is skipped.
RECURSIVE AddStatesFrom(_, _, _)
AddStatesFrom(persisted, state_list, i) ==
    IF i > Len(state_list)
    THEN persisted
    ELSE LET state == state_list[i]
         IN  IF state \notin DOMAIN get_state_types
             THEN AddStatesFrom(persisted, state_list, i + 1)
             ELSE AddStatesFrom((persisted \ get_state_types[state]) \cup {state},
                                state_list, i + 1)

\* An add_states that does not remove the states a new state excludes.
add_states_KeepExcluded(persisted, state_list) ==
    IF Len(state_list) = 0
    THEN [states |-> persisted, result |-> Done("add_states", state_list, persisted, EmptyDict)]
    ELSE IF check_excluded_states(state_list)
         THEN [states |-> persisted,
               result |-> Failed("add_states", state_list, persisted, "ParameterError")]
         ELSE [states |-> persisted \cup (SeqRange(state_list) \cap DOMAIN get_state_types),
               result |-> Done("add_states", state_list, persisted, StateResult(state_list))]

add_states(persisted, state_list) ==
    IF Len(state_list) = 0
    THEN [states |-> persisted, result |-> Done("add_states", state_list, persisted, EmptyDict)]
    ELSE IF check_excluded_states(state_list)
         THEN [states |-> persisted,
               result |-> Failed("add_states", state_list, persisted, "ParameterError")]
         ELSE [states |-> AddStatesFrom(persisted, state_list, 1),
               result |-> Done("add_states", state_list, persisted, StateResult(state_list))]

SetStates(state_list) ==
    /\ states' = set_states(states, state_list).states
    /\ result' = set_states(states, state_list).result
    /\ UNCHANGED <<challenges, info, now, issued, validations, procs, owners, realms, tokens, token_table>>

AddStates(state_list) ==
    /\ states' = add_states(states, state_list).states
    /\ result' = add_states(states, state_list).result
    /\ UNCHANGED <<challenges, info, now, issued, validations, procs, owners, realms, tokens, token_table>>

NextStates ==
    \/ \E state_list \in Lists(StateNames) : SetStates(state_list)
    \/ \E state_list \in Lists(StateNames) : AddStates(state_list)

SpecStates == Init /\ [][NextStates]_vars

\* ------------------------------------------------------- owners and realms
\* The realms that exist, and the names a caller may pass to set_realms.
RealmNames == {"r1", "r2"}
RealmInputs == RealmNames \cup {"nope", ""}

\* Users of existing realms; the resolver res1 is part of both realms.
Users ==
    {[uid |-> "u1", resolver |-> "res1", realm |-> "r1"],
     [uid |-> "u1", resolver |-> "res1", realm |-> "r2"],
     [uid |-> "u2", resolver |-> "res2", realm |-> "r2"]}

OwnerRow(user) == [user_id |-> user.uid, resolver |-> user.resolver, realm |-> user.realm]

\* An add_user that does not look for an owner.
add_user_SecondOwner(owner_rows, container_realms, user) ==
    [owners |-> owner_rows \cup {OwnerRow(user)},
     realms |-> container_realms \cup {user.realm},
     result |-> Done("add_user", user,
                     [owners |-> owner_rows, realms |-> container_realms], TRUE)]

add_user(owner_rows, container_realms, user) ==
    IF owner_rows = {}
    THEN [owners |-> {OwnerRow(user)},
          realms |-> container_realms \cup {user.realm},
          result |-> Done("add_user", user,
                          [owners |-> owner_rows, realms |-> container_realms], TRUE)]
    ELSE [owners |-> owner_rows, realms |-> container_realms,
          result |-> Failed("add_user", user,
                            [owners |-> owner_rows, realms |-> container_realms],
                            "TokenAdminError")]

remove_user(owner_rows, container_realms, user) ==
    LET matching == {o \in owner_rows : o.user_id = user.uid /\ o.resolver = user.resolver}
    IN  [owners |-> owner_rows \ matching, realms |-> container_realms,
         result |-> Done("remove_user", user,
                         [owners |-> owner_rows, realms |-> container_realms],
                         Cardinality(matching) > 0)]

get_user_realms(owner_rows) == {o.realm : o \in owner_rows}

\* A set as a list, in some order.
SetToSeq(S) == CHOOSE q \in [1..Cardinality(S) -> S] : SeqRange(q) = S

\* A realm lookup that finds every name.
RealmExists_Any(realm) == TRUE

RealmExists(realm) == realm \in RealmNames

\* The loop of set_realms from position i on: assigned are the realm rows of
\* the container, res the result map so far.
RECURSIVE SetRealmsFrom(_, _, _, _)
SetRealmsFrom(assigned, res, realm_list, i) ==
    IF i > Len(realm_list)
    THEN [realms |-> assigned, res |-> res]
    ELSE LET realm == realm_list[i]
         IN  IF realm = ""
             THEN SetRealmsFrom(assigned, res, realm_list, i + 1)
             ELSE IF ~RealmExists(realm)
                  THEN SetRealmsFrom(assigned, Put(res, realm, FALSE), realm_list, i + 1)
                  ELSE IF realm \notin assigned
                       THEN SetRealmsFrom(assigned \cup {realm}, Put(res, realm, TRUE),
                                          realm_list, i + 1)
                       ELSE SetRealmsFrom(assigned, Put(res, realm, FALSE),
                                          realm_list, i + 1)

\* A set_realms that does not retain the realms of the owner.
set_realms_NoRetain(owner_rows, container_realms, realm_list, add) ==
    LET out == SetRealmsFrom(IF add THEN container_realms ELSE {}, EmptyDict, realm_list, 1)
    IN  [owners |-> owner_rows, realms |-> out.realms,
         result |-> Done("set_realms", [realms |-> realm_list, add |-> add],
                         [owners |-> owner_rows, realms |-> container_realms],
                         [deleted |-> ~add, realms |-> out.res])]

set_realms(owner_rows, container_realms, realm_list, add) ==
    LET missing_realms == get_user_realms(owner_rows) \ SeqRange(realm_list)
        extended == IF add THEN realm_list ELSE realm_list \o SetToSeq(missing_realms)
        out == SetRealmsFrom(IF add THEN container_realms ELSE {}, EmptyDict, extended, 1)
    IN  [owners |-> owner_rows, realms |-> out.realms,
         result |-> Done("set_realms", [realms |-> realm_list, add |-> add],
                         [owners |-> owner_rows, realms |-> container_realms],
                         [deleted |-> ~add, realms |-> out.res])]

ApplyAssignment(out) ==
    /\ owners' = out.owners
    /\ realms' = out.realms
    /\ result' = out.result
    /\ UNCHANGED <<challenges, info, now, issued, validations, procs, states, tokens, token_table>>

AddUser(user) == ApplyAssignment(add_user(owners, realms, user))
RemoveUser(user) == ApplyAssignment(remove_user(owners, realms, user))
SetRealms(realm_list, add) == ApplyAssignment(set_realms(owners, realms, realm_list, add))

NextOwners ==
    \/ \E user \in Users : AddUser(user)
    \/ \E user \in Users : RemoveUser(user)
    \/ \E realm_list \in Lists(RealmInputs), add \in BOOLEAN : SetRealms(realm_list, add)

SpecOwners == Init /\ [][NextOwners]_vars

\* ------------------------------------------------------------------ tokens
MaxClientTokens == 2

get_supported_token_types == {"daypassword", "hotp", "push", "sms", "totp"}

\* An add_token that accepts every token type.
add_token_NoTypeCheck(members, serial) ==
    IF serial \notin SeqRange(members)
    THEN [tokens |-> Append(members, serial),
          result |-> Done("add_token", serial, [tokens |-> members], TRUE)]
    ELSE [tokens |-> members,
          result |-> Done("add_token", serial, [tokens |-> members], FALSE)]

\* serial is the serial of the TokenClass object passed.
add_token(members, serial) ==
    IF TokenType[serial] \notin get_supported_token_types
    THEN [tokens |-> members,
          result |-> Failed("add_token", serial, [tokens |-> members], "ParameterError")]
    ELSE IF serial \notin SeqRange(members)
         THEN [tokens |-> Append(members, serial),
               result |-> Done("add_token", serial, [tokens |-> members], TRUE)]
         ELSE [tokens |-> members,
               result |-> Done("add_token", serial, [tokens |-> members], FALSE)]

\* A remove_token that deletes the token row as well.
remove_token_DeleteToken(members, table, serial) ==
    IF serial \notin table
    THEN [tokens |-> members, token_table |-> table,
          result |-> Failed("remove_token", serial, [tokens |-> members],
                            "ResourceNotFoundError")]
    ELSE IF serial \notin SeqRange(members)
         THEN [tokens |-> members, token_table |-> table,
               result |-> Done("remove_token", serial, [tokens |-> members], FALSE)]
         ELSE [tokens |-> SelectSeq(members, LAMBDA t : t # serial),
               token_table |-> table \ {serial},
               result |-> Done("remove_token", serial, [tokens |-> members], TRUE)]

remove_token(members, table, serial) ==
    IF serial \notin table
    THEN [tokens |-> members, token_table |-> table,
          result |-> Failed("remove_token", serial, [tokens |-> members],
                            "ResourceNotFoundError")]
    ELSE IF serial \notin SeqRange(members)
         THEN [tokens |-> members, token_table |-> table,
               result |-> Done("remove_token", serial, [tokens |-> members], FALSE)]
         ELSE [tokens |-> SelectSeq(members, LAMBDA t : t # serial),
               token_table |-> table,
               result |-> Done("remove_token", serial, [tokens |-> members], TRUE)]

\* ------------------------------------------ TokenContainerClass.get_as_dict
\* The details without the description, the template, the users and the dates.
PublicBlackKeys == {"public_key_container", "rollover_server_url", "rollover_challenge_ttl"}

\* A get_as_dict that hides additional_hide_info only from the public details.
get_as_dict_PublicOnly(form, persisted, container_realms, container_info, members, include_tokens, public_info, additional_hide_info) ==
    LET black_key_list == IF public_info
                          THEN PublicBlackKeys \cup SeqRange(additional_hide_info)
                          ELSE {}
        info_dict == [key \in (DOMAIN container_info) \ black_key_list |-> container_info[key]]
        details == [type |-> form, states |-> persisted, info |-> info_dict,
                    realms |-> container_realms]
    IN  IF include_tokens THEN Put(details, "tokens", members) ELSE details

get_as_dict(form, persisted, container_realms, container_info, members, include_tokens, public_info, additional_hide_info) ==
    LET black_key_list == (IF public_info THEN PublicBlackKeys ELSE {})
                              \cup SeqRange(additional_hide_info)
        info_dict == IF public_info \/ additional_hide_info # <<>>
                     THEN [key \in (DOMAIN container_info) \ black_key_list |->
                              container_info[key]]
                     ELSE container_info
        details == [type |-> form, states |-> persisted, info |-> info_dict,
                    realms |-> container_realms]
    IN  IF include_tokens THEN Put(details, "tokens", members) ELSE details

\* ---------------------------------------------- synchronize_container_details
\* A token of the client's container: its serial ("" when it sends none), its
\* otp values, written as the set of the tokens whose otp values they are, and
\* the token type it declares under the keys type and tokentype ("" for a key
\* it does not send).
SerialToken(serial) == [serial |-> serial, otp |-> {}, type |-> "", tokentype |-> ""]
OtpToken(otp, type, tokentype) ==
    [serial |-> "", otp |-> otp, type |-> type, tokentype |-> tokentype]
ClientTokens ==
    {SerialToken(serial) : serial \in Serials}
        \cup {OtpToken({}, "", ""), OtpToken({"TOTP1"}, "totp", "totp"),
              OtpToken({"HOTP1", "TOTP1"}, "", "")}
ClientLists == UNION {[1..n -> ClientTokens] : n \in 0..MaxClientTokens}

\* Client tokens without a serial: otp values of no token, of one token of the
\* declared or of another type, and of two tokens, with no type declared, with
\* the type of one of them, and with a type under the key type only.
OtpClientTokens ==
    {SerialToken("HOTP1"),
     OtpToken({}, "", ""), OtpToken({"TOTP1"}, "totp", "totp"),
     OtpToken({"TOTP1"}, "hotp", "hotp"), OtpToken({"HOTP1", "TOTP1"}, "", ""),
     OtpToken({"HOTP1", "TOTP1"}, "totp", "totp"),
     OtpToken({"HOTP1", "TOTP1"}, "hotp", "")}
OtpClientLists == UNION {[1..n -> OtpClientTokens] : n \in 0..MaxClientTokens}

\* The token type a form reads from a client token: the smartphone reads the
\* key type, the base container the key tokentype.
DeclaredType(form, token) == IF form = "base" THEN token.tokentype ELSE token.type

\* get_serial_by_otp_list over get_tokens(tokentype=token_type): the tokens of
\* the declared type (all tokens when none is declared) with these otp values.
SerialList(form, token) ==
    {serial \in token.otp :
        DeclaredType(form, token) \in {"", TokenType[serial]}}

\* A lookup that binds a token to one of several serials it finds.
ClientSerial_BindAny(form, token) ==
    IF token.serial # ""
    THEN <<token.serial>>
    ELSE IF SerialList(form, token) # {}
         THEN <<CHOOSE serial \in SerialList(form, token) : TRUE>>
         ELSE <<>>

\* The serial of a client token after the lookup by otp, as a list of at most
\* one serial.
ClientSerial(form, token) ==
    IF token.serial # ""
    THEN <<token.serial>>
    ELSE IF Cardinality(SerialList(form, token)) = 1
         THEN <<CHOOSE serial \in SerialList(form, token) : TRUE>>
         ELSE <<>>

RECURSIVE ClientSerialsFrom(_, _, _)
ClientSerialsFrom(form, client_tokens, i) ==
    IF i > Len(client_tokens)
    THEN <<>>
    ELSE ClientSerial(form, client_tokens[i]) \o ClientSerialsFrom(form, client_tokens, i + 1)

\* serial_otp_map: the otp values of the client tokens that were bound to a
\* serial by the lookup; a later token of the list replaces an earlier one.
RECURSIVE SerialOtpMapFrom(_, _, _, _)
SerialOtpMapFrom(form, client_tokens, i, serial_otp_map) ==
    IF i > Len(client_tokens)
    THEN serial_otp_map
    ELSE LET token == client_tokens[i]
         IN  IF token.serial = "" /\ ClientSerial(form, token) # <<>>
             THEN SerialOtpMapFrom(form, client_tokens, i + 1,
                                   Put(serial_otp_map, ClientSerial(form, token)[1], token.otp))
             ELSE SerialOtpMapFrom(form, client_tokens, i + 1, serial_otp_map)

black_list_token_info == {"private_key_server", "private_key_server_type"}

\* What the result says about the container itself: the base form names it,
\* the smartphone sends its public details without the tokens.
container_dict(form, persisted, container_realms, container_info, members) ==
    IF form = "base"
    THEN [type |-> form, serial |-> Serial]
    ELSE get_as_dict(form, persisted, container_realms, container_info, members,
                     FALSE, TRUE, <<>>)

\* The entry of a token in the update list; count is renamed to counter, and
\* the smartphone sends the token's info without the private key.
\* The otp values the client sent for the token are added.
TokenEntry(form, serial, serial_otp_map) ==
    LET token_dict == IF form = "base"
                      THEN [serial |-> serial, tokentype |-> TokenType[serial],
                            counter |-> 0]
                      ELSE [serial |-> serial, tokentype |-> TokenType[serial],
                            counter |-> 0,
                            info |-> [key \in (DOMAIN TokenInfo[serial]) \ black_list_token_info |->
                                         TokenInfo[serial][key]]]
    IN  IF Has(serial_otp_map, serial)
        THEN Put(token_dict, "otp", serial_otp_map[serial])
        ELSE token_dict

\* The loop over the client's tokens that are missing on the server, from
\* position i on: tokens that do not exist or have an unsupported type are
\* skipped, the others are added and join the serials to update.
\* An import that adds the tokens but does not put them on the update list.
RECURSIVE ImportFrom_NoEcho(_, _, _, _, _)
ImportFrom_NoEcho(members, same_serials, table, server_missing_tokens, i) ==
    IF i > Len(server_missing_tokens)
    THEN [tokens |-> members, same_serials |-> same_serials]
    ELSE LET serial == server_missing_tokens[i]
         IN  IF serial \in table /\ TokenType[serial] \in get_supported_token_types
                /\ serial \notin SeqRange(members)
             THEN ImportFrom_NoEcho(Append(members, serial), same_serials, table,
                                    server_missing_tokens, i + 1)
             ELSE ImportFrom_NoEcho(members, same_serials, table,
                                    server_missing_tokens, i + 1)

RECURSIVE ImportFrom(_, _, _, _, _)
ImportFrom(members, same_serials, table, server_missing_tokens, i) ==
    IF i > Len(server_missing_tokens)
    THEN [tokens |-> members, same_serials |-> same_serials]
    ELSE LET serial == server_missing_tokens[i]
         IN  IF serial \notin table
             THEN ImportFrom(members, same_serials, table, server_missing_tokens, i + 1)
             ELSE LET added == add_token(members, serial)
                  IN  IF added.result.outcome = "raise"
                      THEN ImportFrom(members, same_serials, table,
                                      server_missing_tokens, i + 1)
                      ELSE ImportFrom(added.tokens, Append(same_serials, serial), table,
                                      server_missing_tokens, i + 1)

ServerMissing(form, members, client_tokens) ==
    SeqRange(ClientSerialsFrom(form, client_tokens, 1)) \ SeqRange(members)

\* A synchronization that imports the client's tokens whatever the policy
\* and the info store say.
synchronize_container_details_AlwaysImport(form, members, container_info, table, container_client, initial_transfer_allowed, server_missing_tokens, persisted, container_realms) ==
    LET server == SeqRange(members)
        client == SeqRange(ClientSerialsFrom(form, container_client, 1))
        imported == ImportFrom(members, SetToSeq(server \cap client), table,
                               server_missing_tokens, 1)
    IN  [tokens |-> imported.tokens, info |-> container_info,
         result |-> Done("synchronize_container_details",
                         [form |-> form, container_client |-> container_client,
                          initial_transfer_allowed |-> initial_transfer_allowed],
                         [tokens |-> members, info |-> container_info],
                         [container |-> container_dict(form, persisted, container_realms,
                                                       container_info, members),
                          add |-> SetToSeq(server \ client),
                          update |-> [k \in DOMAIN imported.same_serials |->
                                         TokenEntry(form, imported.same_serials[k],
                                                    SerialOtpMapFrom(form, container_client, 1, EmptyDict))]])]

\* A synchronization that takes the differences during a rollover as well.
synchronize_container_details_NoRollover(form, members, container_info, table, container_client, initial_transfer_allowed, server_missing_tokens, persisted, container_realms) ==
    LET server == SeqRange(members)
        client == SeqRange(ClientSerialsFrom(form, container_client, 1))
        same_serials == SetToSeq(server \cap client)
        initial == /\ initial_transfer_allowed
                   /\ Get(container_info, "initial_synchronized", "") = "False"
        imported == IF initial
                    THEN ImportFrom(members, same_serials, table, server_missing_tokens, 1)
                    ELSE [tokens |-> members, same_serials |-> same_serials]
    IN  [tokens |-> imported.tokens,
         info |-> IF initial THEN Put(container_info, "initial_synchronized", "True")
                  ELSE container_info,
         result |-> Done("synchronize_container_details",
                         [form |-> form, container_client |-> container_client,
                          initial_transfer_allowed |-> initial_transfer_allowed],
                         [tokens |-> members, info |-> container_info],
                         [container |-> container_dict(form, persisted, container_realms,
                                                       container_info, members),
                          add |-> SetToSeq(server \ client),
                          update |-> [k \in DOMAIN imported.same_serials |->
                                         TokenEntry(form, imported.same_serials[k],
                                                    SerialOtpMapFrom(form, container_client, 1, EmptyDict))]])]

\* A synchronization that keeps the common serials on the update list during
\* a rollover.
synchronize_container_details_RolloverUpdates(form, members, container_info, table, container_client, initial_transfer_allowed, server_missing_tokens, persisted, container_realms) ==
    LET server == SeqRange(members)
        client == SeqRange(ClientSerialsFrom(form, container_client, 1))
        rollover == Get(container_info, "registration_state", "") = "rollover"
        missing_serials == IF rollover THEN members ELSE SetToSeq(server \ client)
        same_serials == SetToSeq(server \cap client)
        initial == /\ initial_transfer_allowed
                   /\ Get(container_info, "initial_synchronized", "") = "False"
        imported == IF initial
                    THEN ImportFrom(members, same_serials, table, server_missing_tokens, 1)
                    ELSE [tokens |-> members, same_serials |-> same_serials]
    IN  [tokens |-> imported.tokens,
         info |-> IF initial THEN Put(container_info, "initial_synchronized", "True")
                  ELSE container_info,
         result |-> Done("synchronize_container_details",
                         [form |-> form, container_client |-> container_client,
                          initial_transfer_allowed |-> initial_transfer_allowed],
                         [tokens |-> members, info |-> container_info],
                         [container |-> container_dict(form, persisted, container_realms,
                                                       container_info, members),
                          add |-> missing_serials,
                          update |-> [k \in DOMAIN imported.same_serials |->
                                         TokenEntry(form, imported.same_serials[k],
                                                    SerialOtpMapFrom(form, container_client, 1, EmptyDict))]])]

\* form: "base" for TokenContainerClass, "smartphone" for SmartphoneContainer;
\* server_missing_tokens: the client's serials missing on the server, in the
\* order the loop takes them. Lists made of sets are in some order.
\* A synchronization that imports without the write of line 518.
synchronize_container_details_KeepFlag(form, members, container_info, table, container_client, initial_transfer_allowed, server_missing_tokens, persisted, container_realms) ==
    LET server == SeqRange(members)
        client == SeqRange(ClientSerialsFrom(form, container_client, 1))
        rollover == Get(container_info, "registration_state", "") = "rollover"
        missing_serials == IF rollover THEN members ELSE SetToSeq(server \ client)
        same_serials == IF rollover THEN <<>> ELSE SetToSeq(server \cap client)
        initial == /\ initial_transfer_allowed
                   /\ Get(container_info, "initial_synchronized", "") = "False"
        imported == IF initial
                    THEN ImportFrom(members, same_serials, table, server_missing_tokens, 1)
                    ELSE [tokens |-> members, same_serials |-> same_serials]
    IN  [tokens |-> imported.tokens,
         info |-> container_info,
         result |-> Done("synchronize_container_details",
                         [form |-> form, container_client |-> container_client,
                          initial_transfer_allowed |-> initial_transfer_allowed],
                         [tokens |-> members, info |-> container_info],
                         [container |-> container_dict(form, persisted, container_realms,
                                                       container_info, members),
                          add |-> missing_serials,
                          update |-> [k \in DOMAIN imported.same_serials |->
                                         TokenEntry(form, imported.same_serials[k],
                                                    SerialOtpMapFrom(form, container_client, 1, EmptyDict))]])]

synchronize_container_details(form, members, container_info, table, container_client, initial_transfer_allowed, server_missing_tokens, persisted, container_realms) ==
    LET server == SeqRange(members)
        client == SeqRange(ClientSerialsFrom(form, container_client, 1))
        rollover == Get(container_info, "registration_state", "") = "rollover"
        missing_serials == IF rollover THEN members ELSE SetToSeq(server \ client)
        same_serials == IF rollover THEN <<>> ELSE SetToSeq(server \cap client)
        initial == /\ initial_transfer_allowed
                   /\ Get(container_info, "initial_synchronized", "") = "False"
        imported == IF initial
                    THEN ImportFrom(members, same_serials, table, server_missing_tokens, 1)
                    ELSE [tokens |-> members, same_serials |-> same_serials]
    IN  [tokens |-> imported.tokens,
         info |-> IF initial THEN Put(container_info, "initial_synchronized", "True")
                  ELSE container_info,
         result |-> Done("synchronize_container_details",
                         [form |-> form, container_client |-> container_client,
                          initial_transfer_allowed |-> initial_transfer_allowed],
                         [tokens |-> members, info |-> container_info],
                         [container |-> container_dict(form, persisted, container_realms,
                                                       container_info, members),
                          add |-> missing_serials,
                          update |-> [k \in DOMAIN imported.same_serials |->
                                         TokenEntry(form, imported.same_serials[k],
                                                    SerialOtpMapFrom(form, container_client, 1, EmptyDict))]])]

\* A registered smartphone without tokens.
InitTokens ==
    /\ challenges = NoChallenges
    /\ info = [public_key_container |-> "k1", registration_state |-> "registered"]
    /\ now = 0
    /\ issued = <<>>
    /\ validations = <<>>
    /\ result = Idle("init")
    /\ procs = NoProcs
    /\ states = {"active"}
    /\ owners = {}
    /\ realms = {}
    /\ tokens = <<>>
    /\ token_table = DOMAIN TokenType

AddToken(serial) ==
    /\ tokens' = add_token(tokens, serial).tokens
    /\ result' = add_token(tokens, serial).result
    /\ UNCHANGED <<challenges, info, now, issued, validations, procs, states, owners,
                   realms, token_table>>

RemoveToken(serial) ==
    LET out == remove_token(tokens, token_table, serial)
    IN  /\ tokens' = out.tokens
        /\ token_table' = out.token_table
        /\ result' = out.result
        /\ UNCHANGED <<challenges, info, now, issued, validations, procs, states, owners,
                       realms>>

SynchronizeContainerDetails(form, container_client, initial_transfer_allowed) ==
    \E server_missing_tokens \in Orderings(SetToSeq(ServerMissing(form, tokens, container_client))) :
        LET out == synchronize_container_details(form, tokens, info, token_table,
                       container_client, initial_transfer_allowed, server_missing_tokens,
                       states, realms)
        IN  /\ tokens' = out.tokens
            /\ info' = out.info
            /\ result' = out.result
            /\ UNCHANGED <<challenges, now, issued, validations, procs, states, owners,
                           realms, token_table>>

NextTokens ==
    \/ \E serial \in DOMAIN TokenType : AddToken(serial)
    \/ \E serial \in Serials : RemoveToken(serial)
    \/ \E form \in {"base", "smartphone"}, container_client \in ClientLists,
          initial_transfer_allowed \in BOOLEAN :
          SynchronizeContainerDetails(form, container_client, initial_transfer_allowed)
    \/ \E value \in {"rollover", "registered"} : AddContainerInfo("registration_state", value)
    \/ AddContainerInfo("initial_synchronized", "False")

SpecTokens == InitTokens /\ [][NextTokens]_vars

NextOtp ==
    \/ \E serial \in {"HOTP1", "TOTP1"} : AddToken(serial)
    \/ \E form \in {"base", "smartphone"}, container_client \in OtpClientLists,
          initial_transfer_allowed \in BOOLEAN :
          SynchronizeContainerDetails(form, container_client, initial_transfer_allowed)
    \/ AddContainerInfo("initial_synchronized", "False")

SpecOtp == InitTokens /\ [][NextOtp]_vars

\* ------------------------------------------- the protocol of a base container
RegistrationNotImplemented == "Registration is not implemented for this container type."
EncryptionNotImplemented == "Encryption is not implemented for this container type."

\* The outcome of a protocol operation of TokenContainerClass: the error it
\* raises (with its message) or the value it returns.
BaseRaised(op, message) ==
    [op |-> op, form |-> "base", outcome |-> "raise", value |-> <<>>,
     error |-> "privacyIDEAError", message |-> message]
BaseReturned(op, value) ==
    [op |-> op, form |-> "base", outcome |-> "return", value |-> value,
     error |-> NoError, message |-> ""]

base_init_registration == BaseRaised("init_registration", RegistrationNotImplemented)
base_finalize_registration == BaseRaised("finalize_registration", RegistrationNotImplemented)
base_terminate_registration == BaseRaised("terminate_registration", RegistrationNotImplemented)
base_check_challenge_response == BaseReturned("check_challenge_response", FALSE)
base_create_challenge == BaseReturned("create_challenge", EmptyDict)
base_encrypt_dict == BaseRaised("encrypt_dict", EncryptionNotImplemented)

BaseOperations ==
    {base_init_registration, base_finalize_registration, base_terminate_registration,
     base_check_challenge_response, base_create_challenge, base_encrypt_dict}

\* A protocol operation called on a base container: none of them writes.
BaseOperation(out) ==
    /\ result' = out
    /\ UNCHANGED <<challenges, info, now, issued, validations, procs, management>>

NextBase ==
    \/ NextStates
    \/ \E out \in BaseOperations : BaseOperation(out)

SpecBase == Init /\ [][NextBase]_vars

\* ------------------------------------------------------ options of a container
OptionInputKeys == {"key_algorithm", "hash_algorithm", "color"}
OptionInputValues == {"secp384r1", "SHA256", "rsa"}
OptionDicts == UNION {[keys -> OptionInputValues] : keys \in SUBSET OptionInputKeys}
None == <<"None">>

\* An add_options that persists any value of a class option.
add_options_NoValueCheck(container_info, option_dict) ==
    LET accepted == {key \in DOMAIN option_dict : key \in OptionKeys}
    IN  [info |-> [key \in (DOMAIN container_info) \cup accepted |->
                      IF key \in accepted THEN option_dict[key] ELSE container_info[key]],
         result |-> Done("add_options", option_dict, [info |-> container_info], <<>>)]

add_options(container_info, option_dict) ==
    LET accepted == {key \in DOMAIN option_dict :
                        /\ key \in OptionKeys
                        /\ option_dict[key] \in SeqRange(options[key])}
    IN  [info |-> [key \in (DOMAIN container_info) \cup accepted |->
                      IF key \in accepted THEN option_dict[key] ELSE container_info[key]],
         result |-> Done("add_options", option_dict, [info |-> container_info], <<>>)]

set_default_option(container_info, key) ==
    IF key \notin OptionKeys
    THEN [info |-> container_info,
          result |-> Done("set_default_option", key, [info |-> container_info], None)]
    ELSE IF Get(container_info, key, "") = ""
         THEN [info |-> Put(container_info, key, options[key][1]),
               result |-> Done("set_default_option", key, [info |-> container_info],
                               options[key][1])]
         ELSE [info |-> container_info,
               result |-> Done("set_default_option", key, [info |-> container_info],
                               container_info[key])]

AddOptions(option_dict) ==
    /\ info' = add_options(info, option_dict).info
    /\ result' = add_options(info, option_dict).result
    /\ UNCHANGED <<challenges, now, issued, validations, procs, management>>

SetDefaultOption(key) ==
    /\ info' = set_default_option(info, key).info
    /\ result' = set_default_option(info, key).result
    /\ UNCHANGED <<challenges, now, issued, validations, procs, management>>

\* TokenContainerClass.add_container_info called with any key and value.
AddInfo(key, value) ==
    /\ info' = Put(info, key, value)
    /\ result' = Done("add_container_info", <<key, value>>, [info |-> info], <<>>)
    /\ UNCHANGED <<challenges, now, issued, validations, procs, management>>

NextOptions ==
    \/ \E option_dict \in OptionDicts : AddOptions(option_dict)
    \/ \E key \in OptionInputKeys : SetDefaultOption(key)
    \/ \E key \in OptionInputKeys, value \in OptionInputValues \cup {""} : AddInfo(key, value)
    \/ InitRegistration("register", 1, "")

SpecOptions == Init /\ [][NextOptions]_vars

\* --------------------------------------------- the details of a container
DetailKeys == PublicBlackKeys \cup {"device", "key_algorithm"}
HideLists == {<<>>, <<"device">>, <<"key_algorithm", "public_key_container">>, <<"nope">>}

GetAsDict(include_tokens, public_info, additional_hide_info) ==
    /\ result' = Done("get_as_dict",
                      [include_tokens |-> include_tokens, public_info |-> public_info,
                       additional_hide_info |-> additional_hide_info],
                      [info |-> info, tokens |-> tokens],
                      get_as_dict("smartphone", states, realms, info, tokens, include_tokens,
                                  public_info, additional_hide_info))
    /\ UNCHANGED <<challenges, info, now, issued, validations, procs, management>>

NextDetails ==
    \/ \E key \in DetailKeys : AddInfo(key, "v")
    \/ \E serial \in {"HOTP1", "TOTP1"} : AddToken(serial)
    \/ \E include_tokens \in BOOLEAN, public_info \in BOOLEAN,
          additional_hide_info \in HideLists :
          GetAsDict(include_tokens, public_info, additional_hide_info)

SpecDetails == Init /\ [][NextDetails]_vars

\* ------------------------------------------- registration and synchronization
\* The life of one smartphone: registration, rollover, termination, and the
\* synchronization request of the device.
LifecycleInputs ==
    [delays |-> {61}, validities |-> {1}, scopes |-> {"register"}, passphrases |-> {""},
     signers |-> {"k1"}, clientKeys |-> {"k1"}, serverKeys |-> {"s1"},
     devices |-> {NoDevice}, extras |-> {NoExtras}, transfers |-> BOOLEAN]

LifecycleClients ==
    {<<>>, <<SerialToken("HOTP1")>>, <<SerialToken("TOTP1")>>,
     <<SerialToken("SPAS1"), OtpToken({"TOTP1"}, "totp", "totp")>>}

\* The synchronization request ends a rollover: the state the finalization
\* preserved becomes registered once the container details were synchronized.
complete_rollover(container_info) ==
    IF Get(container_info, "registration_state", "") = "rollover"
    THEN Put(container_info, "registration_state", "registered")
    ELSE container_info

Synchronize(container_client, initial_transfer_allowed) ==
    \E server_missing_tokens \in Orderings(SetToSeq(ServerMissing("smartphone", tokens, container_client))) :
        LET out == synchronize_container_details("smartphone", tokens, info, token_table,
                       container_client, initial_transfer_allowed, server_missing_tokens,
                       states, realms)
        IN  /\ Has(info, "public_key_container")
            /\ tokens' = out.tokens
            /\ info' = complete_rollover(out.info)
            /\ result' = out.result
            /\ UNCHANGED <<challenges, now, issued, validations, procs, states, owners,
                           realms, token_table>>

NextLifecycle ==
    \/ InitRegistration("register", 1, "")
    \/ FinalizeRegistration(LifecycleInputs)
    \/ CreateChallenge("register", 1)
    \/ CheckChallengeResponse(LifecycleInputs)
    \/ TerminateRegistration
    \/ AddContainerInfo("registration_state", "rollover")
    \/ \E serial \in {"HOTP1", "SPAS1"} : AddToken(serial)
    \/ \E container_client \in LifecycleClients, initial_transfer_allowed \in BOOLEAN :
          Synchronize(container_client, initial_transfer_allowed)

SpecLifecycle == Init /\ [][NextLifecycle]_vars

\* ================================================================= claims
ValidationOps == {"finalize_registration", "check_challenge_response"}
Unexpired(c, t) == t - c.timestamp < c.validitytime

\* Every well-formed request a device can send that is signed over the
\* challenge with nonce n, issued at time t.
SignedRequests(D, n, t) ==
    {ValidationRequest(SignChallenge(n, t, signer, signed_scope, passphrase, device, extras),
                       public_key, scope, extras[1], extras[2], device[1], device[2]) :
        signer \in D.signers, public_key \in D.signers, scope \in D.scopes,
        signed_scope \in D.scopes, passphrase \in D.passphrases,
        device \in D.devices, extras \in D.extras}

\* C1: every challenge validates at most once: a challenge that a validation
\* has matched is no longer recorded, no later validation matches it, and
\* every request signed over it (the accepted request among them) fails
\* validation from then on.
Consumed == {n \in DOMAIN validations : validations[n] > 0}
C1_ReplayFails ==
    \A n \in Consumed :
        /\ validations[n] = 1
        /\ n \notin Nonces(challenges)
        /\ \A request \in SignedRequests(ChallengeInputs, n, issued[n]) :
               ~validate_challenge(challenges, request, now).valid
C1_Witness ==
    /\ result.op = "check_challenge_response"
    /\ result.error = "ContainerInvalidChallenge"
    /\ Consumed # {}
    /\ \E c \in SeqRange(challenges) : Unexpired(c, now) /\ c.scope = result.scope

\* C2: a validation never matches a challenge whose stored scope differs from
\* the scope of the request, and it leaves every unexpired challenge of
\* another scope recorded, whether it succeeds or fails.
C2_ScopeMismatchIsNoMatch ==
    [][result'.op \in ValidationOps =>
          /\ \A n \in result'.matched :
                /\ n \in Nonces(challenges)
                /\ Row(challenges, n).scope = result'.scope
          /\ \A c \in SeqRange(challenges) :
                (c.scope # result'.scope /\ Unexpired(c, now)) => c \in SeqRange(challenges')]_vars
C2_Witness ==
    /\ result.op \in ValidationOps
    /\ result.outcome = "return"
    /\ \E c \in SeqRange(challenges) : c.scope # result.scope /\ Unexpired(c, now)

\* C3: a challenge created with validity m minutes is stored with a window of
\* 60*m seconds from its creation, a validation matches a challenge only
\* while fewer seconds than its window have elapsed, and a validation that
\* matches nothing removes every expired challenge.
C3_ValidWithinWindow ==
    [][/\ result'.op \in {"create_challenge", "init_registration"} =>
             LET c == challenges'[Len(challenges')]
             IN  /\ c.timestamp = now
                 /\ c.validitytime = SecondsPerMinute * result'.validity_time
       /\ result'.op \in ValidationOps =>
             \A n \in result'.matched :
                 LET c == Row(challenges, n)
                 IN  now - c.timestamp < c.validitytime
       /\ (result'.op \in ValidationOps /\ result'.matched = NoMatch
             /\ result'.error # "ContainerNotRegistered") =>
             \A c \in SeqRange(challenges) :
                 ~(now - c.timestamp < c.validitytime) => c \notin SeqRange(challenges')]_vars
C3_Witness ==
    /\ result.op \in ValidationOps
    /\ result.outcome = "raise"
    /\ now = 2 * SecondsPerMinute + 1
    /\ Consumed # {}
    /\ challenges = NoChallenges
    /\ \E n \in DOMAIN issued : issued[n] = 0 /\ n \notin Consumed

\* C4: from every reachable state, init_registration followed by a correctly
\* signed finalize_registration succeeds, sets registration_state to
\* registered and stores both server keys and the client's public key; a
\* check_challenge_response against a fresh challenge then succeeds with a
\* correct signature and raises ContainerInvalidChallenge with a tampered one.
RoundTripPassphrases == {"", "pw"}
C4_RoundTrip ==
    \A scope \in Scopes, passphrase \in RoundTripPassphrases, k \in ClientKeys,
       device \in RegistrationInputs.devices, transfer \in BOOLEAN,
       keypair \in ServerKeyPairs :
        LET n1 == Len(issued) + 1
            s1 == init_registration(challenges, info, n1, now, scope, 1, passphrase)
            params == FinalizeParams(
                          SignChallenge(n1, now, k, scope, passphrase, device, NoExtras),
                          k, scope, device, transfer)
            s2 == finalize_registration(s1.challenges, s1.challenges, s1.info, now,
                                        params, keypair)
        IN  /\ s2.result.outcome = "return"
            /\ Get(s2.info, "registration_state", "") = "registered"
            /\ Get(s2.info, "public_key_container", "") = k
            /\ Has(s2.info, "public_key_server")
            /\ Has(s2.info, "private_key_server")
            /\ \A scope2 \in Scopes, extras \in RegistrationInputs.extras :
                   LET n2 == n1 + 1
                       rows == create_challenge(s2.challenges, n2, now, scope2, 1, "")
                       good == check_challenge_response(rows, rows, s2.info, now,
                                   CheckParams(SignChallenge(n2, now, k, scope2, "", device,
                                                             extras),
                                               scope2, device, extras))
                       bad == check_challenge_response(rows, rows, s2.info, now,
                                   CheckParams(Tampered, scope2, device, extras))
                   IN  /\ good.result.outcome = "return"
                       /\ good.result.value = TRUE
                       /\ bad.result.outcome = "raise"
                       /\ bad.result.error = "ContainerInvalidChallenge"
C4_Witness ==
    /\ result.op = "check_challenge_response"
    /\ result.outcome = "return"
    /\ Get(info, "registration_state", "") = "registered"
    /\ Has(info, "public_key_server")
    /\ Has(info, "private_key_server")
    /\ Len(issued) = 2
    /\ validations = <<1, 1>>

\* C5: check_challenge_response on a container without public_key_container
\* raises ContainerNotRegistered and deletes no challenge; with the key on
\* file a failed validation raises ContainerInvalidChallenge; whenever it
\* returns, it returns True after a match.
C5_NotRegistered ==
    [][result'.op = "check_challenge_response" =>
          /\ ~Has(info, "public_key_container") =>
                /\ result'.outcome = "raise"
                /\ result'.error = "ContainerNotRegistered"
                /\ challenges' = challenges
          /\ (Has(info, "public_key_container") /\ result'.matched = NoMatch) =>
                /\ result'.outcome = "raise"
                /\ result'.error = "ContainerInvalidChallenge"
          /\ result'.outcome = "return" =>
                /\ result'.value = TRUE
                /\ result'.matched # NoMatch]_vars
C5_Witness ==
    /\ result.op = "check_challenge_response"
    /\ result.error = "ContainerNotRegistered"
    /\ \E c \in SeqRange(challenges) : ~Unexpired(c, now)
    /\ \E c \in SeqRange(challenges) : Unexpired(c, now) /\ c.scope = result.scope

\* C6: every rejection by finalize_registration, and by
\* check_challenge_response on a container with a public key on file, is the
\* same error with the same message, whatever made the validation fail.
C6_SameRejection ==
    (/\ result.op \in ValidationOps
     /\ result.outcome = "raise"
     /\ result.op = "check_challenge_response" => Has(info, "public_key_container"))
    => /\ result.error = "ContainerInvalidChallenge"
       /\ result.message = InvalidChallengeMessage
C6_Witness ==
    /\ result.op = "finalize_registration"
    /\ result.outcome = "raise"
    /\ challenges # NoChallenges
    /\ \A c \in SeqRange(challenges) : Unexpired(c, now) /\ c.scope # result.scope

\* C7: after init_registration exactly one challenge is recorded, the new one
\* with the given scope, registration_state is client_wait, no request signed
\* over an older challenge validates, and a deleted challenge never comes back.
C7_OnlyNewChallenge ==
    [][/\ result'.op = "init_registration" =>
             /\ Len(challenges') = 1
             /\ challenges'[1].nonce = Len(issued')
             /\ challenges'[1].nonce \notin DOMAIN issued
             /\ challenges'[1].scope = result'.scope
             /\ Get(info', "registration_state", "") = "client_wait"
             /\ \A n \in DOMAIN issued :
                    \A request \in SignedRequests(ChallengeInputs, n, issued[n]) :
                        ~validate_challenge(challenges', request, now').valid
       /\ \A n \in DOMAIN issued : n \notin Nonces(challenges) => n \notin Nonces(challenges')]_vars
C7_Witness ==
    /\ result.op = "init_registration"
    /\ Len(issued) = 3
    /\ validations = <<0, 0, 0>>
    /\ now > 0
    /\ issued[2] = now

\* C8: a finalize_registration that fails the validation raises
\* ContainerInvalidChallenge and leaves the info store as it was.
C8_FailureKeepsInfo ==
    [][(result'.op = "finalize_registration" /\ result'.matched = NoMatch) =>
          /\ result'.outcome = "raise"
          /\ result'.error = "ContainerInvalidChallenge"
          /\ info' = info]_vars
C8_Witness ==
    /\ result.op = "finalize_registration"
    /\ result.outcome = "raise"
    /\ Get(info, "registration_state", "") = "registered"
    /\ Has(info, "device")
    /\ Has(info, "initial_synchronized")

\* C9: of two interleaved validations that carry the same signature at most
\* one succeeds.
C9_NoDoubleAccept ==
    \A p, q \in Procs :
        (p # q /\ procs[p].valid /\ procs[q].valid)
            => procs[p].request.signature # procs[q].request.signature

\* C10: when two concurrent finalize_registration calls have both returned,
\* public_key_container, public_key_server and private_key_server in the
\* info store all stem from one of the two calls.
KeysOf(p) ==
    [public_key_container |-> procs[p].params.public_client_key,
     public_key_server |-> <<"pub", procs[p].keypair>>,
     private_key_server |-> encryptPassword(<<"priv", procs[p].keypair>>)]
C10_KeysOfOneCall ==
    (\A p \in Procs : /\ procs[p].kind = "finalize_registration"
                      /\ procs[p].pc = "done"
                      /\ procs[p].outcome = "return")
    => \E p \in Procs :
           \A key \in DOMAIN KeysOf(p) : Get(info, key, "") = KeysOf(p)[key]

\* ------------------------------------------------------------------- C11
\* C11: whatever set_states and add_states calls were made, failed ones
\* included, the persisted states never hold a state together with a state it
\* excludes, and the exclusion map is symmetric.
StateOps == {"set_states", "add_states"}
C11_NoExclusiveStates ==
    /\ \A state \in states \cap DOMAIN get_state_types :
           states \cap get_state_types[state] = {}
    /\ \A a, b \in DOMAIN get_state_types :
           (b \in get_state_types[a]) <=> (a \in get_state_types[b])

\* active was persisted and a call naming disabled has gone through.
C11_Witness ==
    /\ result.op \in StateOps
    /\ result.outcome = "return"
    /\ "active" \in result.before
    /\ "disabled" \in states

\* ------------------------------------------------------------------- C12
\* C12: a set_states or add_states call whose list holds two states that
\* exclude each other raises ParameterError and leaves the persisted states
\* as they were.
Contradictory(state_list) ==
    \E a, b \in SeqRange(state_list) :
        a \in DOMAIN get_state_types /\ b \in get_state_types[a]
C12_ContradictoryListFails ==
    [][(result'.op \in StateOps /\ Contradictory(result'.args))
          => /\ result'.outcome = "raise"
             /\ result'.error = "ParameterError"
             /\ states' = states]_vars

C12_Witness ==
    /\ result.op \in StateOps
    /\ result.outcome = "raise"
    /\ Contradictory(result.args)
    /\ states = {"active", "lost"}

\* ------------------------------------------------------------------- C13
\* C13: add_states of a list without contradiction leaves the previous states
\* minus the states excluded by a supported state of the list, plus the
\* supported states of the list; an empty list changes nothing.
SupportedOf(state_list) == SeqRange(state_list) \cap DOMAIN get_state_types
ExcludedBy(S) == UNION {get_state_types[state] : state \in S}
C13_AddStatesResult ==
    [][(result'.op = "add_states" /\ ~Contradictory(result'.args))
          => /\ result'.outcome = "return"
             /\ states' = (states \ ExcludedBy(SupportedOf(result'.args)))
                              \cup SupportedOf(result'.args)
             /\ (result'.args = <<>> => states' = states)]_vars

C13_Witness ==
    /\ result.op = "add_states"
    /\ result.args = <<"disabled">>
    /\ result.before = {"active", "lost"}
    /\ states = {"disabled", "lost"}

\* ------------------------------------------------------------------- C14
\* C14: a list without contradiction never makes set_states or add_states
\* fail; unsupported names are reported False and not persisted, supported
\* names are reported True and persisted, and after set_states the persisted
\* states are exactly the supported names of the list.
C14_UnsupportedSkipped ==
    [][(result'.op \in StateOps /\ ~Contradictory(result'.args))
          => /\ result'.outcome = "return"
             /\ \A state \in SeqRange(result'.args) :
                   IF state \in DOMAIN get_state_types
                   THEN result'.value[state] = TRUE /\ state \in states'
                   ELSE result'.value[state] = FALSE /\ state \notin states'
             /\ (result'.op = "set_states" => states' = SupportedOf(result'.args))]_vars

C14_Witness ==
    /\ result.op = "set_states"
    /\ result.outcome = "return"
    /\ result.args = <<"broken", "active">>
    /\ result.before = {"disabled", "lost"}
    /\ states = {"active"}

\* ------------------------------------------------------------------- C15
\* C15: a container never has more than one owner; add_user on a container
\* with an owner raises TokenAdminError and leaves the owners and the realms
\* as they were; remove_user returns True exactly when an owner row of that
\* user (user id and resolver) existed.
C15_AtMostOneOwner ==
    /\ Cardinality(owners) <= 1
    /\ (result.op = "add_user" /\ result.before.owners # {})
          => /\ result.outcome = "raise"
             /\ result.error = "TokenAdminError"
             /\ owners = result.before.owners
             /\ realms = result.before.realms
    /\ result.op = "remove_user"
          => /\ result.outcome = "return"
             /\ result.value = (\E o \in result.before.owners :
                                   /\ o.user_id = result.args.uid
                                   /\ o.resolver = result.args.resolver)

\* A second, different user was refused.
C15_Witness ==
    /\ result.op = "add_user"
    /\ result.outcome = "raise"
    /\ \E o \in owners : o.user_id # result.args.uid
    /\ result.args.realm \notin realms

\* ------------------------------------------------------------------- C16
\* C16: whenever the container has an owner, the realm of the owner is among
\* the realms of the container, whatever add_user, remove_user and set_realms
\* calls were made.
C16_OwnerRealmAssigned == \A o \in owners : o.realm \in realms

\* A replacing set_realms that omitted the realm of the owner retained it.
C16_Witness ==
    /\ result.op = "set_realms"
    /\ ~result.args.add
    /\ result.args.realms = <<"r2">>
    /\ \E o \in owners : o.realm = "r1"
    /\ realms = {"r1", "r2"}

\* ------------------------------------------------------------------- C17
\* C17: set_realms never raises and maps an unknown realm name to False;
\* replacing leaves exactly the existing realms of the list and the realms of
\* the owner, with deleted = True; adding removes no realm, has deleted =
\* False and maps a realm that was assigned before to False.
C17_SetRealmsResult ==
    result.op = "set_realms"
      => /\ result.outcome = "return"
         /\ \A realm \in SeqRange(result.args.realms) \ (RealmNames \cup {""}) :
               result.value.realms[realm] = FALSE
         /\ ~result.args.add
               => /\ result.value.deleted = TRUE
                  /\ realms = (SeqRange(result.args.realms) \cap RealmNames)
                                 \cup {o.realm : o \in result.before.owners}
         /\ result.args.add
               => /\ result.value.deleted = FALSE
                  /\ result.before.realms \subseteq realms
                  /\ \A realm \in SeqRange(result.args.realms) \cap result.before.realms :
                        result.value.realms[realm] = FALSE

C17_Witness ==
    /\ result.op = "set_realms"
    /\ result.args = [realms |-> <<"nope", "r1">>, add |-> FALSE]
    /\ result.before = [owners |-> {}, realms |-> {"r2"}]
    /\ realms = {"r1"}

\* ------------------------------------------------------------------- C18
\* C18: add_token raises ParameterError for a token of an unsupported type,
\* returns False for a token that is a member, and otherwise adds the token
\* and returns True; so every member has a supported type and no serial is a
\* member twice, whatever add_token, remove_token and synchronization calls
\* were made.
C18_SupportedMembers ==
    /\ \A i \in DOMAIN tokens : TokenType[tokens[i]] \in get_supported_token_types
    /\ \A i, j \in DOMAIN tokens : i # j => tokens[i] # tokens[j]
    /\ result.op = "add_token"
          => IF TokenType[result.args] \notin get_supported_token_types
             THEN /\ result.outcome = "raise"
                  /\ result.error = "ParameterError"
                  /\ tokens = result.before.tokens
             ELSE IF result.args \in SeqRange(result.before.tokens)
                  THEN /\ result.outcome = "return"
                       /\ result.value = FALSE
                       /\ tokens = result.before.tokens
                  ELSE /\ result.outcome = "return"
                       /\ result.value = TRUE
                       /\ tokens = Append(result.before.tokens, result.args)

\* A synchronization imported a token of the client and skipped SPAS1.
C18_Witness ==
    /\ result.op = "synchronize_container_details"
    /\ \E k \in DOMAIN result.args.container_client :
           result.args.container_client[k].serial = "SPAS1"
    /\ Len(tokens) > Len(result.before.tokens)

\* ------------------------------------------------------------------- C19
\* C19: remove_token raises the not-found error and changes nothing when no
\* token has the serial; returns False and changes nothing when the token is
\* not in the container; otherwise returns True, the token is no longer in
\* the container and the token still exists.
C19_RemoveToken ==
    [][result'.op = "remove_token"
          => LET serial == result'.args
             IN  IF serial \notin token_table
                 THEN /\ result'.outcome = "raise"
                      /\ result'.error = "ResourceNotFoundError"
                      /\ tokens' = tokens /\ token_table' = token_table
                 ELSE IF serial \notin SeqRange(tokens)
                      THEN /\ result'.outcome = "return"
                           /\ result'.value = FALSE
                           /\ tokens' = tokens /\ token_table' = token_table
                      ELSE /\ result'.outcome = "return"
                           /\ result'.value = TRUE
                           /\ SeqRange(tokens') = SeqRange(tokens) \ {serial}
                           /\ serial \in token_table']_vars

C19_Witness ==
    /\ result.op = "remove_token"
    /\ result.outcome = "return"
    /\ result.value = TRUE
    /\ result.args \in token_table
    /\ result.args \notin SeqRange(tokens)
    /\ tokens # <<>>

\* ------------------------------------------------------------------- C20
\* C20: outside a rollover and without the initial import, a synchronization
\* (either form) returns as add the serials of the container that the client
\* does not report and as update one entry for each serial both have, and
\* changes neither the tokens of the container nor the info store.
OfDeclaredType(form, c) ==
    LET declared == IF form = "smartphone" THEN c.type ELSE c.tokentype
    IN  {serial \in c.otp : declared = "" \/ TokenType[serial] = declared}
ReportedSerials(form, client_tokens) ==
    {t.serial : t \in {c \in SeqRange(client_tokens) : c.serial # ""}}
        \cup {serial \in Serials :
                 \E c \in SeqRange(client_tokens) :
                     c.serial = "" /\ OfDeclaredType(form, c) = {serial}}
C20_SyncDifferences ==
    (/\ result.op = "synchronize_container_details"
     /\ Get(result.before.info, "registration_state", "") # "rollover"
     /\ ~(/\ result.args.initial_transfer_allowed
          /\ Get(result.before.info, "initial_synchronized", "") = "False"))
      => LET server == SeqRange(result.before.tokens)
             client == ReportedSerials(result.args.form, result.args.container_client)
         IN  /\ result.outcome = "return"
             /\ SeqRange(result.value.add) = server \ client
             /\ Len(result.value.add) = Cardinality(server \ client)
             /\ {entry.serial : entry \in SeqRange(result.value.update)} = server \cap client
             /\ Len(result.value.update) = Cardinality(server \cap client)
             /\ tokens = result.before.tokens
             /\ info = result.before.info

\* The server has HOTP1 and TOTP1, the client reports HOTP1.
C20_Witness ==
    /\ result.op = "synchronize_container_details"
    /\ SeqRange(result.before.tokens) = {"HOTP1", "TOTP1"}
    /\ result.args.container_client = <<SerialToken("HOTP1")>>
    /\ result.value.add = <<"TOTP1">>
    /\ Len(result.value.update) = 1
    /\ result.value.update[1].serial = "HOTP1"
    /\ "counter" \in DOMAIN result.value.update[1]
    /\ Get(result.before.info, "initial_synchronized", "") = "False"

\* ------------------------------------------------------------------- C21
SyncDone == result.op = "synchronize_container_details"
InitialImport(container_info, initial_transfer_allowed) ==
    /\ initial_transfer_allowed
    /\ Get(container_info, "initial_synchronized", "") = "False"
UpdateSerials == {entry.serial : entry \in SeqRange(result.value.update)}

\* C21 as stated: during a rollover a synchronization returns all tokens of
\* the container as add and an empty update list, whatever the client reports.
C21_RolloverUpdateEmpty ==
    (SyncDone /\ Get(result.before.info, "registration_state", "") = "rollover")
      => /\ result.value.add = result.before.tokens
         /\ result.value.update = <<>>

\* C21 amended: during a rollover a synchronization returns as add all tokens
\* the container had before the call, whatever the client reports; update is
\* empty unless the initial import runs in the same call, and then it holds
\* exactly the tokens that call imported.
C21_RolloverSync ==
    (SyncDone /\ Get(result.before.info, "registration_state", "") = "rollover")
      => /\ result.value.add = result.before.tokens
         /\ UpdateSerials = SeqRange(tokens) \ SeqRange(result.before.tokens)
         /\ Len(result.value.update) = Cardinality(UpdateSerials)
         /\ ~InitialImport(result.before.info, result.args.initial_transfer_allowed)
               => result.value.update = <<>>

\* Rollover, the server has HOTP1 and TOTP1, the client reports HOTP1.
C21_Witness ==
    /\ SyncDone
    /\ Get(result.before.info, "registration_state", "") = "rollover"
    /\ result.before.tokens = <<"HOTP1", "TOTP1">>
    /\ result.args.container_client = <<SerialToken("HOTP1")>>
    /\ result.value.add = <<"HOTP1", "TOTP1">>
    /\ result.value.update = <<>>

\* ------------------------------------------------------------------- C22
\* C22: with initial_transfer_allowed and initial_synchronized = "False" a
\* synchronization sets the flag to "True", adds every serial only the client
\* has whose token exists and has a supported type, skips the others without
\* failing, and puts every added serial on the update list; when either
\* condition is false it adds no token.
C22_InitialImport ==
    SyncDone
      => LET server == SeqRange(result.before.tokens)
             client == ReportedSerials(result.args.form, result.args.container_client)
             importable == {serial \in client \ server :
                               /\ serial \in token_table
                               /\ TokenType[serial] \in get_supported_token_types}
         IN  /\ result.outcome = "return"
             /\ IF InitialImport(result.before.info, result.args.initial_transfer_allowed)
                THEN /\ info = Put(result.before.info, "initial_synchronized", "True")
                     /\ SeqRange(tokens) = server \cup importable
                     /\ importable \subseteq UpdateSerials
                ELSE /\ tokens = result.before.tokens
                     /\ info = result.before.info

\* An import that added TOTP1 and skipped the serial of no token.
C22_Witness ==
    /\ SyncDone
    /\ InitialImport(result.before.info, result.args.initial_transfer_allowed)
    /\ result.args.container_client =
           <<SerialToken("NONE1"), OtpToken({"TOTP1"}, "totp", "totp")>>
    /\ result.before.tokens = <<"HOTP1">>
    /\ tokens = <<"HOTP1", "TOTP1">>
    /\ "TOTP1" \in UpdateSerials

\* C23: the bulk import is one-time. A synchronization changes the tokens of the
\* container only when initial_synchronized is "False" and the transfer is
\* allowed; that synchronization imports the client-only tokens and leaves the
\* flag different from "False", so that every later synchronization adds no
\* token; the flag becomes "False" again only by a successful
\* finalize_registration.
Granted == Get(info, "initial_synchronized", "") = "False"
Importable(members, table, container_client) ==
    {serial \in SeqRange(ClientSerialsFrom("smartphone", container_client, 1))
                    \ SeqRange(members) :
        /\ serial \in table
        /\ TokenType[serial] \in get_supported_token_types}
C23_OneTimeImport ==
    [][/\ (result'.op = "synchronize_container_details" /\ tokens' # tokens)
            => Granted /\ result'.args.initial_transfer_allowed
       /\ (result'.op = "synchronize_container_details" /\ Granted
              /\ result'.args.initial_transfer_allowed)
            => /\ ~Granted'
               /\ SeqRange(tokens') = SeqRange(tokens)
                     \cup Importable(tokens, token_table, result'.args.container_client)
       /\ (Granted' /\ ~Granted)
            => result'.op = "finalize_registration" /\ result'.outcome = "return"]_vars

\* A synchronization after the import: the transfer is allowed and the client
\* reports a token the container does not have, and no token is added.
C23_Witness ==
    /\ SyncDone
    /\ result.args.initial_transfer_allowed
    /\ Get(result.before.info, "initial_synchronized", "") = "True"
    /\ result.args.container_client = <<SerialToken("TOTP1")>>
    /\ result.before.tokens = <<"HOTP1">>
    /\ tokens = <<"HOTP1">>

\* C24: terminate_registration removes exactly the keys public_key_container,
\* public_key_server, private_key_server, device, server_url, registration_state,
\* challenge_ttl and initial_synchronized from the info store and keeps every
\* other entry; it returns without an error whichever of them are absent, and a
\* second call would leave the store as the first one left it.
TerminateDone == result.op = "terminate_registration"
C24_TerminateRemovesKeys ==
    TerminateDone
      => LET removed == {"public_key_container", "public_key_server", "private_key_server",
                         "device", "server_url", "registration_state", "challenge_ttl",
                         "initial_synchronized"}
         IN  /\ result.outcome = "return"
             /\ DOMAIN info = (DOMAIN result.before.info) \ removed
             /\ \A key \in DOMAIN info : info[key] = result.before.info[key]
             /\ terminate_registration(info) = info

\* The termination of a registered container that has its options set.
C24_Witness ==
    /\ TerminateDone
    /\ {"public_key_container", "public_key_server", "private_key_server",
        "registration_state", "key_algorithm"} \subseteq DOMAIN result.before.info
    /\ ~Has(result.before.info, "device")
    /\ DOMAIN info = OptionKeys

\* C25: after terminate_registration no challenge of the container is left.
C25_TerminateDeletesChallenges ==
    TerminateDone => challenges = NoChallenges

\* C26: a successful finalize_registration of a container in the registration
\* state rollover keeps the state rollover, and the synchronization of a
\* container in the state rollover returns all tokens of the container as add
\* and leaves the registration state registered.
RegistrationState == Get(info, "registration_state", "")
C27_BaseOperationsRaise ==
    (/\ "form" \in DOMAIN result
     /\ result.op \in {"init_registration", "finalize_registration", "terminate_registration",
                       "create_challenge", "encrypt_dict"})
      => /\ result.outcome = "raise"
         /\ result.message \in {RegistrationNotImplemented, EncryptionNotImplemented}

\* C28 as claimed: add_options persists exactly the pairs whose key is a class
\* option and whose value is allowed; set_default_option returns None for a key
\* outside the class options and otherwise returns and leaves persisted an
\* allowed value; the key_algorithm and hash_algorithm init_registration uses are
\* allowed values, whatever the info store held.
AllowedPairs(option_dict) ==
    {key \in DOMAIN option_dict :
        key \in OptionKeys /\ \E k \in DOMAIN options[key] : options[key][k] = option_dict[key]}
AddOptionsPersists ==
    result.op = "add_options"
      => /\ result.outcome = "return"
         /\ DOMAIN info = (DOMAIN result.before.info) \cup AllowedPairs(result.args)
         /\ \A key \in DOMAIN info :
               info[key] = IF key \in AllowedPairs(result.args) THEN result.args[key]
                           ELSE result.before.info[key]
C28_AlwaysAllowed ==
    /\ AddOptionsPersists
    /\ result.op = "set_default_option"
         => IF result.args \notin OptionKeys
            THEN result.value = None /\ info = result.before.info
            ELSE /\ result.value \in SeqRange(options[result.args])
                 /\ info[result.args] = result.value
    /\ result.op = "init_registration"
         => /\ result.value.key_algorithm \in SeqRange(options["key_algorithm"])
            /\ result.value.hash_algorithm \in SeqRange(options["hash_algorithm"])

\* C28 as the code has it: set_default_option keeps and returns a non-empty
\* stored value and persists the first allowed value only when none is set;
\* init_registration uses these values; they are allowed values as long as the
\* stored options are, which add_options, set_default_option and
\* init_registration preserve.
OptionsAllowed(container_info) ==
    \A key \in OptionKeys \cap DOMAIN container_info :
        container_info[key] \in SeqRange(options[key])
Resolved(container_info, key) ==
    IF Get(container_info, key, "") # "" THEN container_info[key] ELSE options[key][1]
C28_Options ==
    [][/\ AddOptionsPersists'
       /\ result'.op = "set_default_option"
            => IF result'.args \notin OptionKeys
               THEN result'.value = None /\ info' = info
               ELSE /\ result'.value = Resolved(info, result'.args)
                    /\ info' = Put(info, result'.args, result'.value)
       /\ result'.op = "init_registration"
            => /\ result'.value.key_algorithm = Resolved(info, "key_algorithm")
               /\ result'.value.hash_algorithm = Resolved(info, "hash_algorithm")
               /\ \A key \in OptionKeys : info'[key] = Resolved(info, key)
       /\ (/\ result'.op \in {"add_options", "set_default_option", "init_registration"}
           /\ OptionsAllowed(info))
            => OptionsAllowed(info')]_vars

\* set_default_option persisted the first allowed value of an option that was
\* not set, next to an option that was.
C28_Witness ==
    /\ result.op = "set_default_option"
    /\ result.args = "hash_algorithm"
    /\ DOMAIN result.before.info = {"key_algorithm"}
    /\ result.value = "SHA256"
    /\ info = [key_algorithm |-> "secp384r1", hash_algorithm |-> "SHA256"]

\* C29: the info of get_as_dict is the info store without the keys of
\* additional_hide_info and, with public_info, without public_key_container,
\* rollover_server_url and rollover_challenge_ttl, every other entry unchanged;
\* the details have a tokens field exactly with include_tokens; the call leaves
\* the info store and the tokens as they were.
C29_GetAsDict ==
    result.op = "get_as_dict"
      => LET details == result.value
             extra == {result.args.additional_hide_info[k] :
                          k \in DOMAIN result.args.additional_hide_info}
             hidden == IF result.args.public_info
                       THEN extra \cup {"public_key_container", "rollover_server_url",
                                        "rollover_challenge_ttl"}
                       ELSE extra
         IN  /\ result.outcome = "return"
             /\ DOMAIN details.info = (DOMAIN result.before.info) \ hidden
             /\ \A key \in DOMAIN details.info : details.info[key] = result.before.info[key]
             /\ ("tokens" \in DOMAIN details) = result.args.include_tokens
             /\ result.args.include_tokens => details.tokens = result.before.tokens
             /\ info = result.before.info
             /\ tokens = result.before.tokens

\* The details of a container with a token and four info entries, without the
\* tokens and without the device, not public.
C29_Witness ==
    /\ result.op = "get_as_dict"
    /\ ~result.args.public_info
    /\ ~result.args.include_tokens
    /\ result.args.additional_hide_info = <<"device">>
    /\ DOMAIN result.before.info = {"public_key_container", "rollover_server_url",
                                    "device", "key_algorithm"}
    /\ result.before.tokens = <<"HOTP1">>
    /\ DOMAIN result.value.info = {"public_key_container", "rollover_server_url",
                                   "key_algorithm"}
    /\ "tokens" \notin DOMAIN result.value

\* C30: whatever challenges are recorded and in whatever order they are read,
\* a validation succeeds exactly when some unexpired challenge has the scope of
\* the request and verifies its signature; it then matches the first such
\* challenge of the list and deletes no other unexpired challenge; a failed
\* validation deletes no unexpired challenge.
Verifies(c, request, t) ==
    /\ Unexpired(c, t)
    /\ c.scope = request.scope
    /\ verify_ecc(Message(c.nonce, isoformat(c.timestamp), c.scope, request.device_brand,
                          request.device_model,
                          IF c.passphrase_response # ""
                          THEN decryptPassword(c.passphrase_response) ELSE "",
                          request.key, request.container),
                  request.signature, request.public_key)
UnexpiredNonces(challenge_list, t) ==
    {c.nonce : c \in {x \in SeqRange(challenge_list) : Unexpired(x, t)}}
C30_FirstMatchWins ==
    \A challenge_list \in Orderings(challenges) :
    \A n \in DOMAIN issued :
    \A request \in SignedRequests(ChallengeInputs, n, issued[n]) :
        LET v == validate_challenge(challenge_list, request, now)
            matching == {i \in DOMAIN challenge_list : Verifies(challenge_list[i], request, now)}
            deleted == v.deleted \cap UnexpiredNonces(challenge_list, now)
        IN  /\ v.valid = (matching # {})
            /\ v.valid
                 => LET first == CHOOSE i \in matching : \A j \in matching : i <= j
                    IN  /\ v.matched = {challenge_list[first].nonce}
                        /\ deleted = v.matched
            /\ ~v.valid => deleted = {}

\* A validation matched the second challenge while the first one, of the same
\* scope and unexpired, is recorded too and stays recorded.
C30_Witness ==
    /\ result.op = "check_challenge_response"
    /\ result.outcome = "return"
    /\ result.matched = {2}
    /\ \E c \in SeqRange(challenges) :
          c.nonce = 1 /\ c.scope = result.scope /\ Unexpired(c, now)

\* C31 as claimed: after a validation, successful or not, no expired challenge
\* of the container is recorded.
C31_NoExpiredRemains ==
    (result.op \in ValidationOps /\ result.error # "ContainerNotRegistered")
      => \A c \in SeqRange(challenges) : Unexpired(c, now)

\* C31 as the code has it: whatever challenges are recorded and in whatever
\* order they are read, a validation that matches nothing deletes every expired
\* challenge, and a validation that matches deletes the expired challenges read
\* before the matched one and keeps those after it.
C31_ExpiredSweptUntilMatch ==
    \A challenge_list \in Orderings(challenges) :
    \A n \in DOMAIN issued :
    \A request \in SignedRequests(TimeInputs, n, issued[n]) :
        LET v == validate_challenge(challenge_list, request, now)
            expired == {i \in DOMAIN challenge_list : ~Unexpired(challenge_list[i], now)}
            kept == {i \in expired : challenge_list[i].nonce \notin v.deleted}
            matching == {i \in DOMAIN challenge_list : Verifies(challenge_list[i], request, now)}
        IN  IF matching = {}
            THEN kept = {}
            ELSE kept = {i \in expired : \E j \in matching : \A k \in matching : j <= k /\ j < i}

\* A successful validation after which an expired challenge is still recorded.
C31_Witness ==
    /\ result.op = "check_challenge_response"
    /\ result.outcome = "return"
    /\ \E c \in SeqRange(challenges) : ~Unexpired(c, now) /\ c.validitytime > 0

\* C32: a response signed over a recorded challenge validates against it exactly
\* when the challenge is unexpired and the passphrase in the signed message is
\* the decrypted passphrase of the challenge, which is no passphrase for a
\* challenge created without one.
RegisteredPassphrase(c) ==
    IF c.passphrase_response # "" THEN decryptPassword(c.passphrase_response) ELSE ""
C32_PassphraseBound ==
    \A c \in SeqRange(challenges) :
    \A passphrase \in PassphraseInputs.passphrases :
        LET signature == SignChallenge(c.nonce, c.timestamp, "k1", c.scope, passphrase,
                                       NoDevice, NoExtras)
            request == ValidationRequest(signature, "k1", c.scope, "", "", "", "")
        IN  /\ validate_challenge(<<c>>, request, now).valid
                  = (Unexpired(c, now) /\ passphrase = RegisteredPassphrase(c))
            /\ (c.passphrase_response = "" /\ passphrase = "")
                  => signature.msg = <<c.nonce, isoformat(c.timestamp), Serial, c.scope>>
            /\ RegisteredPassphrase(c) # ""
                  => RegisteredPassphrase(c) \in PassphraseInputs.passphrases

\* A finalize_registration was rejected while the registration challenge, which
\* has a passphrase, is recorded, unexpired and unmatched.
C32_Witness ==
    /\ result.op = "finalize_registration"
    /\ result.outcome = "raise"
    /\ \E c \in SeqRange(challenges) :
          /\ RegisteredPassphrase(c) = "pw"
          /\ Unexpired(c, now)
          /\ c.scope = result.scope
          /\ validations[c.nonce] = 0

\* C33: from every reachable state, a finalize_registration that succeeds leaves
\* the registration state rollover when it was rollover and registered
\* otherwise, stores the client key of the request, the generated server key
\* and its encrypted private key in place of the old ones, and stores the device
\* of the request, or no device when the request names none.
C33_FinalizeWrites ==
    \A challenge_list \in Orderings(challenges) :
    \A n \in DOMAIN issued, k \in ClientKeys, device \in RegistrationInputs.devices :
    \A transfer \in BOOLEAN, keypair \in ServerKeyPairs :
        LET params == FinalizeParams(
                          SignChallenge(n, issued[n], k, "register", "", device, NoExtras),
                          k, "register", device, transfer)
            out == finalize_registration(challenge_list, challenges, info, now, params,
                                         keypair)
        IN  out.result.outcome = "return"
              => /\ out.info["registration_state"]
                      = IF RegistrationState = "rollover" THEN "rollover" ELSE "registered"
                 /\ out.info["public_key_container"] = k
                 /\ out.info["public_key_server"] = <<"pub", keypair>>
                 /\ out.info["private_key_server"] = encryptPassword(<<"priv", keypair>>)
                 /\ IF device = NoDevice
                    THEN "device" \notin DOMAIN out.info
                    ELSE out.info["device"] = <<device[1], " ", device[2]>>

\* A rollover was finalized, after an earlier registration, by a request with
\* the second client key and without a device.
C33_Witness ==
    /\ result.op = "finalize_registration"
    /\ result.outcome = "return"
    /\ RegistrationState = "rollover"
    /\ info["public_key_container"] = "k2"
    /\ info["public_key_server"] = <<"pub", "s2">>
    /\ ~Has(info, "device")
    /\ validations = <<1, 1>>

\* C34: create_challenge adds exactly one challenge, with a new nonce, the scope
\* of the call and the type container, whose window is 60 times validity_time
\* when validity_time is neither 0 nor None and validity_time itself when it
\* is; the challenges recorded before and the info store stay as they were.
C34_CreateChallenge ==
    [][result'.op = "create_challenge"
          => LET created == challenges'[Len(challenges')]
                 validity_time == result'.validity_time
             IN  /\ Len(challenges') = Len(challenges) + 1
                 /\ \A i \in DOMAIN challenges : challenges'[i] = challenges[i]
                 /\ created.nonce \notin Nonces(challenges)
                 /\ created.scope = result'.scope
                 /\ created.type = "container"
                 /\ created.validitytime = CASE validity_time = 0 -> 0
                                              [] validity_time = NoneTime -> NoneTime
                                              [] OTHER -> 60 * validity_time
                 /\ info' = info]_vars

\* A challenge created with a validity_time of None next to one of two minutes.
C34_Witness ==
    /\ result.op = "create_challenge"
    /\ result.validity_time = NoneTime
    /\ Len(challenges) = 2
    /\ challenges[1].validitytime = 120
    /\ challenges[2].validitytime = NoneTime
    /\ challenges[2].type = "container"

\* C35: a synchronization completes whatever the client reports. A client token
\* without a serial counts as the token its otp values find among the tokens of
\* its declared type when that is exactly one token, and does not count
\* otherwise; the entry of a token in update has the otp values of the (last)
\* client token that was bound to it, and no otp values when none was.
Binders(form, client_tokens, serial) ==
    {i \in DOMAIN client_tokens :
        /\ client_tokens[i].serial = ""
        /\ OfDeclaredType(form, client_tokens[i]) = {serial}}
C36_RegisteredHasKeys ==
    RegistrationState = "registered"
      => {"public_key_container", "public_key_server", "private_key_server"}
            \subseteq DOMAIN info

\* The response of a registered device to a challenge was accepted.
C36_Witness ==
    /\ result.op = "check_challenge_response"
    /\ result.outcome = "return"
    /\ RegistrationState = "registered"
    /\ Has(info, "private_key_server")

\* C37: while terminate_registration is the last operation carried out on the
\* container, neither finalize_registration nor check_challenge_response
\* succeeds: a challenge issued before the termination is of no use after it.
C37_TerminateRevokes ==
    [][TerminateDone
         => ~(/\ result'.op \in {"finalize_registration", "check_challenge_response"}
              /\ result'.outcome = "return")]_vars

\* C38: what the synchronization of a smartphone returns contains neither the
\* private_key_server nor the public_key_container entry of the container's
\* info, and no token entry of update has a private_key_server in its info.
C38_NoKeyMaterial ==
    (SyncDone /\ result.args.form = "smartphone")
      => /\ ~Has(result.value.container.info, "private_key_server")
         /\ ~Has(result.value.container.info, "public_key_container")
         /\ \A entry \in SeqRange(result.value.update) :
               ~Has(entry.info, "private_key_server")

\* C39: whatever the form, the registration state and the import, a
\* synchronization returns no serial both in add and in update and no serial
\* twice in update, every serial in update is a token of the container when
\* the call returns, and every token the container had is still in it.
C39_SyncListsConsistent ==
    SyncDone
      => /\ SeqRange(result.value.add) \cap UpdateSerials = {}
         /\ Len(result.value.update) = Cardinality(UpdateSerials)
         /\ UpdateSerials \subseteq SeqRange(tokens)
         /\ SeqRange(result.before.tokens) \subseteq SeqRange(tokens)

\* A rollover with the initial import: the token of the server is to be added
\* anew, the token the call imported is updated.
C39_Witness ==
    /\ SyncDone
    /\ Get(result.before.info, "registration_state", "") = "rollover"
    /\ InitialImport(result.before.info, result.args.initial_transfer_allowed)
    /\ result.value.add # <<>>
    /\ UpdateSerials # {}
    /\ Len(tokens) > Len(result.before.tokens)

\* C40: for a recorded challenge, a signature made over one combination of
\* the optional fields device_brand, device_model, key and container validates
\* no request that presents a different combination of them: fields that
\* differ in presence or value give different messages.
FieldCombinations ==
    [device_brand : {"", "x"}, device_model : {"", "x"}, key : {"", "x"},
     container : {"", "x"}]
C40_FieldsDetermineMessage ==
    \A c \in SeqRange(challenges) :
    \A signed \in FieldCombinations, sent \in FieldCombinations :
        (Unexpired(c, now) /\ signed # sent)
          => ~validate_challenge(
                 challenges,
                 ValidationRequest(
                     Sign("k1", Message(c.nonce, isoformat(c.timestamp), c.scope,
                                        signed.device_brand, signed.device_model,
                                        IF c.passphrase_response # ""
                                        THEN decryptPassword(c.passphrase_response) ELSE "",
                                        signed.key, signed.container)),
                     "k1", c.scope, sent.key, sent.container,
                     sent.device_brand, sent.device_model),
                 now).valid

====
